---- MODULE Spec2Model ----
(***************************************************************************)
(* A model of clox-rs: scanner -> single-pass Pratt compiler -> chunk ->   *)
(* stack VM, as written in src/src/lox/*.rs.                               *)
(*                                                                         *)
(* A source text is a sequence of characters (one-character strings).      *)
(* Rust's String::len() counts bytes while chars().nth() counts            *)
(* characters, so every character carries a byte width.                    *)
(*                                                                         *)
(* Numbers: an f64 is modelled as an exact rational, +inf, -inf or NaN.    *)
(* Rounding and the sign of zero are not modelled.                         *)
(***************************************************************************)
EXTENDS Integers, Sequences, FiniteSets, TLC

VARIABLES
    source,     \* the text handed to interpret
    pc,         \* "interpret" | "compile" | "run" | "done"
    ctx,        \* compiler.rs CompilerContext
    chunk,      \* chunk.rs Chunk
    env,        \* vm.rs Env (stack, dynamic_strings)
    ip,         \* vm.rs run: ip
    stdout,     \* values written by print_value, in order
    stderr,     \* diagnostics written by error_at and runtime_error, in order
    result,     \* what interpret returned: "None" until it returns
    panic,      \* "" or the message of the abort that ended the program
    call,       \* the last call made on a chunk by itself and what it returned
    handed      \* the <<string, id>> pairs that interning has returned so far

vars == <<source, pc, ctx, chunk, env, ip, stdout, stderr, result, panic, call, handed>>

----------------------------------------------------------------------------
(* Characters *)

NUL == "NUL"
NONE == "Option::None"
NON_ASCII == "U+00E9"

Width(ch) == IF ch = NON_ASCII THEN 2 ELSE 1

Digits == {"0", "1", "2", "3", "4", "5", "6", "7", "8", "9"}

Lower ==
    {"a", "b", "c", "d", "e", "f", "g", "h", "i", "j", "k", "l", "m",
     "n", "o", "p", "q", "r", "s", "t", "u", "v", "w", "x", "y", "z"}

Upper ==
    {"A", "B", "C", "D", "E", "F", "G", "H", "I", "J", "K", "L", "M",
     "N", "O", "P", "Q", "R", "S", "T", "U", "V", "W", "X", "Y", "Z"}

is_digit(c) == c \in Digits

is_alpha(c) == c \in Lower \/ c \in Upper \/ c = "_"

is_alphanumeric(c) == is_alpha(c) \/ is_digit(c)

\* The length of s in bytes: one per character and one more for each
\* character that takes two.
ByteLen(s) == Len(s) + Cardinality({i \in 1..Len(s) : Width(s[i]) = 2})

\* The number of characters before byte offset b, or -1 when b is not a
\* character boundary of s (Rust panics when slicing there).
Boundary(s, b) ==
    IF b \in 0..Len(s) /\ \A i \in 1..b : Width(s[i]) = 1 THEN b
    ELSE LET ks == {k \in 0..Len(s) : ByteLen(SubSeq(s, 1, k)) = b}
         IN  IF ks = {} THEN -1 ELSE CHOOSE k \in ks : TRUE

\* &s[a..b]: [ok |-> FALSE] stands for the slice panic.
Slice(s, a, b) ==
    LET i == Boundary(s, a)
        j == Boundary(s, b)
    IN  IF a > b \/ i < 0 \/ j < 0
        THEN [ok |-> FALSE, str |-> <<>>]
        ELSE [ok |-> TRUE, str |-> SubSeq(s, i + 1, j)]

----------------------------------------------------------------------------
(* scanner.rs.  A scanner state is [sp, line, abort]: the ScannerPointer,   *)
(* the caller's line counter and "" or the message of a panic.             *)

Token(token_type, start, length, line) ==
    [token_type |-> token_type, start |-> start, length |-> length, line |-> line]

make_token(token_type, s) ==
    Token(token_type, s.sp.start, s.sp.current - s.sp.start, s.line)

make_error_token(message, s) == [message |-> message, line |-> s.line]

NoToken == Token("EOF", 0, 0, 0)

NoError == [message |-> "", line |-> 0]

ScanOk(s, token) == [s |-> s, ok |-> TRUE, token |-> token, err |-> NoError]

ScanErr(s, err) == [s |-> s, ok |-> FALSE, token |-> NoToken, err |-> err]

ScanAbort(s, msg) ==
    [s |-> [s EXCEPT !.abort = msg], ok |-> FALSE, token |-> NoToken, err |-> NoError]

is_at_end(p) == p.current >= ByteLen(source)

\* source.chars().nth(i): NONE when the text has no i-th character.
nth(i) == IF i < Len(source) THEN source[i + 1] ELSE NONE

peek(p) == IF is_at_end(p) THEN NUL ELSE nth(p.current)

peek_next(p) == IF p.current + 1 >= ByteLen(source) THEN NUL ELSE nth(p.current + 1)

UnwrapNone == "called Option::unwrap() on a None value"

scanner_advance(s) ==
    IF s.abort # "" THEN s
    ELSE IF nth(s.sp.current) = NONE
    THEN [s EXCEPT !.sp.current = @ + 1, !.abort = UnwrapNone]
    ELSE [s EXCEPT !.sp.current = @ + 1]

\* The inner loop of skip_whitespace that runs to the end of a line comment.
RECURSIVE skip_comment(_)
skip_comment(s) ==
    IF s.abort # "" THEN s
    ELSE IF peek(s.sp) = NONE THEN [s EXCEPT !.abort = UnwrapNone]
    ELSE IF peek(s.sp) # "\n" /\ ~is_at_end(s.sp)
    THEN skip_comment(scanner_advance(s))
    ELSE s

RECURSIVE skip_whitespace(_)
skip_whitespace(s) ==
    LET c == peek(s.sp)
    IN  IF s.abort # "" THEN s
        ELSE IF c = NONE THEN [s EXCEPT !.abort = UnwrapNone]
        ELSE IF c \in {" ", "\r", "\t"} THEN skip_whitespace(scanner_advance(s))
        ELSE IF c = "\n"
        THEN skip_whitespace(scanner_advance([s EXCEPT !.line = @ + 1]))
        ELSE IF c = "/"
        THEN IF peek_next(s.sp) = NONE THEN [s EXCEPT !.abort = UnwrapNone]
             ELSE IF peek_next(s.sp) = "/" THEN skip_whitespace(skip_comment(s))
             ELSE s
        ELSE s

match_char(s, expected) ==
    IF is_at_end(s.sp) THEN [s |-> s, matched |-> FALSE]
    ELSE IF nth(s.sp.current) = NONE
    THEN [s |-> [s EXCEPT !.abort = UnwrapNone], matched |-> FALSE]
    ELSE IF nth(s.sp.current) # expected THEN [s |-> s, matched |-> FALSE]
    ELSE [s |-> [s EXCEPT !.sp.current = @ + 1], matched |-> TRUE]

Keyword(text) ==
    CASE text = <<"a", "n", "d">> -> "And"
      [] text = <<"c", "l", "a", "s", "s">> -> "Class"
      [] text = <<"e", "l", "s", "e">> -> "Else"
      [] text = <<"f", "a", "l", "s", "e">> -> "False"
      [] text = <<"f", "o", "r">> -> "For"
      [] text = <<"f", "u", "n">> -> "Fun"
      [] text = <<"i", "f">> -> "If"
      [] text = <<"n", "i", "l">> -> "Nil"
      [] text = <<"o", "r">> -> "Or"
      [] text = <<"p", "r", "i", "n", "t">> -> "Print"
      [] text = <<"r", "e", "t", "u", "r", "n">> -> "Return"
      [] text = <<"s", "u", "p", "e", "r">> -> "Super"
      [] text = <<"t", "h", "i", "s">> -> "This"
      [] text = <<"t", "r", "u", "e">> -> "True"
      [] text = <<"v", "a", "r">> -> "Var"
      [] text = <<"w", "h", "i", "l", "e">> -> "While"
      [] OTHER -> "Identifier"

RECURSIVE identifier_loop(_)
identifier_loop(s) ==
    IF s.abort # "" THEN s
    ELSE IF peek(s.sp) = NONE THEN [s EXCEPT !.abort = UnwrapNone]
    ELSE IF is_alphanumeric(peek(s.sp)) THEN identifier_loop(scanner_advance(s))
    ELSE s

SliceIndex == "byte index is not a char boundary or is out of range"

\* scanner.rs identifier: after its loop
scanner_identifier_1(s) ==
    LET text == Slice(source, s.sp.start, s.sp.current)
    IN  IF s.abort # "" THEN ScanAbort(s, s.abort)
        ELSE IF ~text.ok THEN ScanAbort(s, SliceIndex)
        ELSE ScanOk(s, make_token(Keyword(text.str), s))

scanner_identifier(s0) == scanner_identifier_1(identifier_loop(s0))

RECURSIVE digits_loop(_)
digits_loop(s) ==
    IF s.abort # "" THEN s
    ELSE IF peek(s.sp) = NONE THEN [s EXCEPT !.abort = UnwrapNone]
    ELSE IF is_digit(peek(s.sp)) THEN digits_loop(scanner_advance(s))
    ELSE s

\* scanner.rs number: the fractional part
scanner_number_1(s1) ==
    IF s1.abort # "" THEN s1
    ELSE IF peek(s1.sp) = "."
    THEN IF peek_next(s1.sp) = NONE THEN [s1 EXCEPT !.abort = UnwrapNone]
         ELSE IF is_digit(peek_next(s1.sp)) THEN digits_loop(scanner_advance(s1))
         ELSE s1
    ELSE s1

scanner_number_2(s2) ==
    IF s2.abort # "" THEN ScanAbort(s2, s2.abort)
    ELSE ScanOk(s2, make_token("Number", s2))

scanner_number(s0) == scanner_number_2(scanner_number_1(digits_loop(s0)))

\* The loop of string without the count of the newlines in the literal.
RECURSIVE string_loop_no_newline(_)
string_loop_no_newline(s) ==
    IF s.abort # "" THEN s
    ELSE IF peek(s.sp) = NONE THEN [s EXCEPT !.abort = UnwrapNone]
    ELSE IF peek(s.sp) # "\"" /\ ~is_at_end(s.sp)
    THEN string_loop_no_newline(scanner_advance(s))
    ELSE s

RECURSIVE string_loop(_)
string_loop(s) ==
    IF s.abort # "" THEN s
    ELSE IF peek(s.sp) = NONE THEN [s EXCEPT !.abort = UnwrapNone]
    ELSE IF peek(s.sp) # "\"" /\ ~is_at_end(s.sp)
    THEN string_loop(scanner_advance(
             IF peek(s.sp) = "\n" THEN [s EXCEPT !.line = @ + 1] ELSE s))
    ELSE s

\* scanner.rs string: the closing quote
scanner_string_2(s2) ==
    IF s2.abort # "" THEN ScanAbort(s2, s2.abort)
    ELSE ScanOk(s2, make_token("String", s2))

scanner_string_1(s1) ==
    IF s1.abort # "" THEN ScanAbort(s1, s1.abort)
    ELSE IF is_at_end(s1.sp)
    THEN ScanErr(s1, make_error_token("Unterminated string.", s1))
    ELSE scanner_string_2(scanner_advance(s1))

scanner_string(s0) == scanner_string_1(string_loop(s0))

OneOrTwo_1(m, one, two) ==
    IF m.s.abort # "" THEN ScanAbort(m.s, m.s.abort)
    ELSE ScanOk(m.s, make_token(IF m.matched THEN two ELSE one, m.s))

\* A one-or-two character operator: two when the next character is =.
OneOrTwo(s, one, two) == OneOrTwo_1(match_char(s, "="), one, two)

\* scan_token: the dispatch on the character c that advance returned
scan_token_3(c, s3) ==
    IF s3.abort # "" THEN ScanAbort(s3, s3.abort)
    ELSE IF is_alpha(c) THEN scanner_identifier(s3)
    ELSE IF is_digit(c) THEN scanner_number(s3)
    ELSE IF c \in {"!", "=", "<", ">"}
    THEN OneOrTwo(s3,
                  CASE c = "!" -> "Bang" [] c = "=" -> "Equal"
                    [] c = "<" -> "Less" [] c = ">" -> "Greater",
                  CASE c = "!" -> "BangEqual" [] c = "=" -> "EqualEqual"
                    [] c = "<" -> "LessEqual" [] c = ">" -> "GreaterEqual")
    ELSE IF c = "\"" THEN scanner_string(s3)
    ELSE CASE c = "(" -> ScanOk(s3, make_token("LeftParen", s3))
           [] c = ")" -> ScanOk(s3, make_token("RightParen", s3))
           [] c = "{" -> ScanOk(s3, make_token("LeftBrace", s3))
           [] c = "}" -> ScanOk(s3, make_token("RightBrace", s3))
           [] c = ";" -> ScanOk(s3, make_token("Semicolon", s3))
           [] c = "," -> ScanOk(s3, make_token("Comma", s3))
           [] c = "." -> ScanOk(s3, make_token("Dot", s3))
           [] c = "-" -> ScanOk(s3, make_token("Minus", s3))
           [] c = "+" -> ScanOk(s3, make_token("Plus", s3))
           [] c = "/" -> ScanOk(s3, make_token("Slash", s3))
           [] c = "*" -> ScanOk(s3, make_token("Star", s3))
           [] OTHER -> ScanErr(s3, make_error_token("Unexpected character.", s3))

scan_token_2(s2) ==
    IF is_at_end(s2.sp) THEN ScanOk(s2, make_token("EOF", s2))
    ELSE scan_token_3(nth(s2.sp.current), scanner_advance(s2))

scan_token_1(s1) ==
    IF s1.abort # "" THEN ScanAbort(s1, s1.abort)
    ELSE scan_token_2([s1 EXCEPT !.sp.start = s1.sp.current])

scan_token(s0) == scan_token_1(skip_whitespace(s0))

----------------------------------------------------------------------------
(* f64.  A number is [k, n, d]: k = "fin" is the rational n/d in lowest     *)
(* terms with d > 0; k = "inf" is the infinity of sign n; k = "nan".        *)

Abs(x) == IF x < 0 THEN -x ELSE x

Sign(x) == IF x < 0 THEN -1 ELSE IF x > 0 THEN 1 ELSE 0

RECURSIVE Gcd(_, _)
Gcd(a, b) == IF b = 0 THEN a ELSE Gcd(b, a % b)

Fin(n, d) ==
    LET g == Gcd(Abs(n), Abs(d))
    IN  [k |-> "fin", n |-> (Sign(d) * n) \div g, d |-> Abs(d) \div g]

Inf(s) == [k |-> "inf", n |-> s, d |-> 0]

NaN == [k |-> "nan", n |-> 0, d |-> 0]

FNeg(a) == IF a.k = "nan" THEN NaN ELSE [a EXCEPT !.n = -a.n]

FAdd(a, b) ==
    IF a.k = "nan" \/ b.k = "nan" THEN NaN
    ELSE IF a.k = "inf" /\ b.k = "inf" THEN (IF a.n = b.n THEN a ELSE NaN)
    ELSE IF a.k = "inf" THEN a
    ELSE IF b.k = "inf" THEN b
    ELSE Fin(a.n * b.d + b.n * a.d, a.d * b.d)

FSub(a, b) == FAdd(a, FNeg(b))

FMul(a, b) ==
    IF a.k = "nan" \/ b.k = "nan" THEN NaN
    ELSE IF a.k = "inf" \/ b.k = "inf"
    THEN (IF a.n = 0 \/ b.n = 0 THEN NaN ELSE Inf(Sign(a.n) * Sign(b.n)))
    ELSE Fin(a.n * b.n, a.d * b.d)

FDiv(a, b) ==
    IF a.k = "nan" \/ b.k = "nan" THEN NaN
    ELSE IF a.k = "inf"
    THEN (IF b.k = "inf" THEN NaN ELSE Inf(a.n * (IF b.n < 0 THEN -1 ELSE 1)))
    ELSE IF b.k = "inf" THEN Fin(0, 1)
    ELSE IF b.n = 0 THEN (IF a.n = 0 THEN NaN ELSE Inf(Sign(a.n)))
    ELSE Fin(a.n * b.d, a.d * b.n)

\* a == b on f64: NaN is equal to nothing.
FEq(a, b) == a.k # "nan" /\ b.k # "nan" /\ a = b

FLt(a, b) ==
    IF a.k = "nan" \/ b.k = "nan" THEN FALSE
    ELSE IF a.k = "inf" THEN a.n < 0 /\ a # b
    ELSE IF b.k = "inf" THEN b.n > 0
    ELSE a.n * b.d < b.n * a.d

FGt(a, b) == FLt(b, a)

DigitVal(c) ==
    CASE c = "0" -> 0 [] c = "1" -> 1 [] c = "2" -> 2 [] c = "3" -> 3
      [] c = "4" -> 4 [] c = "5" -> 5 [] c = "6" -> 6 [] c = "7" -> 7
      [] c = "8" -> 8 [] c = "9" -> 9

RECURSIVE DigitsValue(_, _)
DigitsValue(s, acc) ==
    IF s = <<>> THEN acc ELSE DigitsValue(Tail(s), 10 * acc + DigitVal(Head(s)))

RECURSIVE Pow10(_)
Pow10(e) == IF e = 0 THEN 1 ELSE 10 * Pow10(e - 1)

\* str.parse::<f64>() on the lexemes the scanner calls numbers: digits, or
\* digits '.' digits.  [ok |-> FALSE] is the Err that number() unwraps.
ParseF64(str) ==
    LET dots == {i \in 1..Len(str) : str[i] = "."}
        dot  == IF dots = {} THEN Len(str) + 1 ELSE CHOOSE i \in dots : TRUE
        ip_  == SubSeq(str, 1, dot - 1)
        fp   == SubSeq(str, dot + 1, Len(str))
        wf   == /\ Cardinality(dots) <= 1
                /\ \A i \in 1..Len(str) : i \in dots \/ is_digit(str[i])
                /\ ip_ # <<>>
                /\ (dots # {} => fp # <<>>)
    IN  IF ~wf THEN [ok |-> FALSE, value |-> NaN]
        ELSE [ok |-> TRUE,
              value |-> Fin(DigitsValue(ip_ \o fp, 0), Pow10(Len(fp)))]

----------------------------------------------------------------------------
(* value.rs *)

Value_Number(x) == [t |-> "Number", n |-> x, b |-> FALSE, id |-> 0]

Value_Bool(b) == [t |-> "Bool", n |-> Fin(0, 1), b |-> b, id |-> 0]

Value_Nil == [t |-> "Nil", n |-> Fin(0, 1), b |-> FALSE, id |-> 0]

Value_String(id) == [t |-> "String", n |-> Fin(0, 1), b |-> FALSE, id |-> id]

is_number(v) == v.t = "Number"

ExpectedNumber == "Expected number value"

\* Value::as_number: [ok |-> FALSE] is the panic of the wildcard arm.
as_number(v) ==
    IF v.t = "Number" THEN [ok |-> TRUE, value |-> v.n]
    ELSE [ok |-> FALSE, value |-> NaN]

----------------------------------------------------------------------------
(* object.rs *)

MAX_STRING_LITERAL == 255

StringId_is_literal(id) == id < MAX_STRING_LITERAL

StringData(start, end) == [start |-> start, end |-> end]

StringLiteralStorage_new == [string |-> <<>>, data |-> <<>>, next_id |-> 0]

\* A search that starts at the second entry.
exist_string_skips_first(st, str) ==
    LET hits == {i \in 2..Len(st.data) :
                    Slice(st.string, st.data[i].start, st.data[i].end) =
                        [ok |-> TRUE, str |-> str]}
    IN  IF hits = {} THEN -1
        ELSE (CHOOSE i \in hits : \A j \in hits : i <= j) - 1

\* exist_string: the first index whose bytes equal str, or -1 for None.
exist_string(st, str) ==
    LET hits == {i \in 1..Len(st.data) :
                    Slice(st.string, st.data[i].start, st.data[i].end) =
                        [ok |-> TRUE, str |-> str]}
    IN  IF hits = {} THEN -1
        ELSE (CHOOSE i \in hits : \A j \in hits : i <= j) - 1

\* A test of fullness that is late by one entry.
is_max_string_late(st) == st.next_id = MAX_STRING_LITERAL + 1

is_max_string(st) == st.next_id = MAX_STRING_LITERAL

TooManyStringLiterals == "Too many string literals"

StringLiteralStorage_add_string(st, str) ==
    IF is_max_string(st)
    THEN [st |-> st, ok |-> FALSE, id |-> 0, msg |-> TooManyStringLiterals]
    ELSE LET start == ByteLen(st.string)
             end   == start + ByteLen(str)
         IN  [st |-> [string  |-> st.string \o str,
                      data    |-> Append(st.data, StringData(start, end)),
                      next_id |-> st.next_id + 1],
              ok |-> TRUE, id |-> st.next_id, msg |-> ""]

IndexOutOfBounds == "index out of bounds"

\* StringLiteralStorage::get_string: data[id] panics when id >= data.len().
StringLiteralStorage_get_string(st, id) ==
    IF id >= Len(st.data) THEN [ok |-> FALSE, str |-> <<>>]
    ELSE Slice(st.string, st.data[id + 1].start, st.data[id + 1].end)

DynamicStringStorage_new ==
    [string |-> <<>>, data |-> <<>>, next_id |-> MAX_STRING_LITERAL]

\* DynamicStringStorage::add_string without the step of next_id
DynamicStringStorage_add_string_keeps_id(st, str) ==
    [st |-> [string  |-> st.string \o str,
             data    |-> st.data @@ (st.next_id :> StringData(ByteLen(st.string),
                                                            ByteLen(st.string) + ByteLen(str))),
             next_id |-> st.next_id],
     ok |-> TRUE, id |-> st.next_id]

\* DynamicStringStorage::add_string.  The next_id == u64::MAX branch needs
\* 2^64 - 256 earlier additions and is left out.
DynamicStringStorage_add_string(st, str) ==
    LET start == ByteLen(st.string)
        end   == start + ByteLen(str)
    IN  [st |-> [string  |-> st.string \o str,
                 data    |-> st.data @@ (st.next_id :> StringData(start, end)),
                 next_id |-> st.next_id + 1],
         ok |-> TRUE, id |-> st.next_id]

\* DynamicStringStorage::get_string: data.get(&id).unwrap().
DynamicStringStorage_get_string(st, id) ==
    IF id \notin DOMAIN st.data THEN [ok |-> FALSE, str |-> <<>>]
    ELSE Slice(st.string, st.data[id].start, st.data[id].end)

----------------------------------------------------------------------------
(* chunk.rs *)

OpCodes ==
    <<"Constant", "StringLiteral", "Nil", "True", "False", "Pop", "GetGlobal",
      "DefineGlobal", "SetGlobal", "Equal", "Greater", "Less", "Add",
      "Subtract", "Multiply", "Divide", "Not", "Negate", "Print", "Return">>

\* opcode as u8
OpByte(opcode) == (CHOOSE i \in 1..Len(OpCodes) : OpCodes[i] = opcode) - 1

\* OpCode::from_u8: "Invalid" is the panic "Invalid opcode".
from_u8(value) == IF value < Len(OpCodes) THEN OpCodes[value + 1] ELSE "Invalid"

U8_MAX == 255

\* Chunk::new.  operands is history, not a field of Chunk: the offsets of
\* the bytes that write_u8 and write_string_literal_id wrote.
Chunk_new ==
    [code |-> <<>>, lines |-> <<>>, constants |-> <<>>,
     string_literals |-> StringLiteralStorage_new, operands |-> {}]

\* A write_u8 that pushes the byte and no line.
write_u8_no_line(ch, v, line) ==
    [ch EXCEPT !.code = Append(@, v), !.operands = @ \cup {Len(ch.code)}]

write_u8(ch, v, line) ==
    [ch EXCEPT !.code = Append(@, v), !.lines = Append(@, line),
               !.operands = @ \cup {Len(ch.code)}]

write(ch, opcode, line) ==
    [ch EXCEPT !.code = Append(@, OpByte(opcode)), !.lines = Append(@, line)]

TooManyConstants == "Too many constants in one chunk"

\* An add_constant whose test of fullness is > in place of >=.
add_constant_late(ch, value) ==
    IF Len(ch.constants) > U8_MAX
    THEN [chunk |-> ch, ok |-> FALSE, idx |-> 0, msg |-> TooManyConstants]
    ELSE [chunk |-> [ch EXCEPT !.constants = Append(@, value)],
          ok |-> TRUE, idx |-> Len(ch.constants), msg |-> ""]

add_constant(ch, value) ==
    IF Len(ch.constants) >= U8_MAX
    THEN [chunk |-> ch, ok |-> FALSE, idx |-> 0, msg |-> TooManyConstants]
    ELSE [chunk |-> [ch EXCEPT !.constants = Append(@, value)],
          ok |-> TRUE, idx |-> Len(ch.constants), msg |-> ""]

write_string_literal_id(ch, id, line) ==
    IF StringId_is_literal(id)
    THEN [chunk |-> write_u8(ch, id, line), ok |-> TRUE]
    ELSE [chunk |-> ch, ok |-> FALSE]

\* add_or_retrieve_string_literal with the pool's room tested before the search
add_or_retrieve_string_literal_tests_room(ch, str) ==
    IF is_max_string(ch.string_literals)
    THEN [chunk |-> ch, ok |-> FALSE, id |-> 0, msg |-> TooManyStringLiterals]
    ELSE IF exist_string(ch.string_literals, str) >= 0
    THEN [chunk |-> ch, ok |-> TRUE, id |-> exist_string(ch.string_literals, str), msg |-> ""]
    ELSE [chunk |-> [ch EXCEPT !.string_literals =
                                   StringLiteralStorage_add_string(ch.string_literals, str).st],
          ok |-> StringLiteralStorage_add_string(ch.string_literals, str).ok,
          id |-> StringLiteralStorage_add_string(ch.string_literals, str).id,
          msg |-> StringLiteralStorage_add_string(ch.string_literals, str).msg]

add_or_retrieve_string_literal(ch, str) ==
    LET found == exist_string(ch.string_literals, str)
        added == StringLiteralStorage_add_string(ch.string_literals, str)
    IN  IF found >= 0
        THEN [chunk |-> ch, ok |-> TRUE, id |-> found, msg |-> ""]
        ELSE [chunk |-> [ch EXCEPT !.string_literals = added.st],
              ok |-> added.ok, id |-> added.id, msg |-> added.msg]

\* Chunk::byte: -1 stands for the index panic.
byte(ch, offset) == IF offset < Len(ch.code) THEN ch.code[offset + 1] ELSE -1

\* Chunk::read_constant: constants[code[offset]].
read_constant(ch, offset) ==
    IF offset >= Len(ch.code) \/ ch.code[offset + 1] >= Len(ch.constants)
    THEN [ok |-> FALSE, value |-> Value_Nil]
    ELSE [ok |-> TRUE, value |-> ch.constants[ch.code[offset + 1] + 1]]

read_string_literal(ch, id) == StringLiteralStorage_get_string(ch.string_literals, id)

get_line(ch, offset) == IF offset < Len(ch.lines) THEN ch.lines[offset + 1] ELSE -1

----------------------------------------------------------------------------
(* compiler.rs.  A compiler state m is [ctx, chunk, stderr, abort]: the     *)
(* CompilerContext, the chunk being written, the diagnostics printed so    *)
(* far and "" or the message of a panic.  After a panic nothing changes.   *)

Precedence(name) ==
    CASE name = "None" -> 0
      [] name = "Assignment" -> 1
      [] name = "Or" -> 2
      [] name = "And" -> 3
      [] name = "Equality" -> 4
      [] name = "Comparison" -> 5
      [] name = "Term" -> 6
      [] name = "Factor" -> 7
      [] name = "Unary" -> 8
      [] name = "Call" -> 9
      [] name = "Primary" -> 10

\* Precedence::next_higher_precedence: -1 stands for the panic on Primary.
next_higher_precedence(precedence) ==
    IF precedence = Precedence("Primary") THEN -1 ELSE precedence + 1

ParseRule(prefix, infix, precedence) ==
    [prefix |-> prefix, infix |-> infix, precedence |-> Precedence(precedence)]

\* ParseRule::query
query(token_type) ==
    CASE token_type = "LeftParen" -> ParseRule("grouping", "none", "None")
      [] token_type = "Minus" -> ParseRule("unary", "binary", "Term")
      [] token_type = "Plus" -> ParseRule("none", "binary", "Term")
      [] token_type = "Slash" -> ParseRule("none", "binary", "Factor")
      [] token_type = "Star" -> ParseRule("none", "binary", "Factor")
      [] token_type = "Bang" -> ParseRule("unary", "none", "None")
      [] token_type = "BangEqual" -> ParseRule("none", "binary", "Equality")
      [] token_type = "EqualEqual" -> ParseRule("none", "binary", "Equality")
      [] token_type = "Greater" -> ParseRule("none", "binary", "Comparison")
      [] token_type = "GreaterEqual" -> ParseRule("none", "binary", "Comparison")
      [] token_type = "Less" -> ParseRule("none", "binary", "Comparison")
      [] token_type = "LessEqual" -> ParseRule("none", "binary", "Comparison")
      [] token_type = "Identifier" -> ParseRule("variable", "none", "None")
      [] token_type = "String" -> ParseRule("string", "none", "None")
      [] token_type = "Number" -> ParseRule("number", "none", "None")
      [] token_type = "False" -> ParseRule("literal", "none", "None")
      [] token_type = "Nil" -> ParseRule("literal", "none", "None")
      [] token_type = "True" -> ParseRule("literal", "none", "None")
      [] OTHER -> ParseRule("none", "none", "None")

\* The CompilerContext that compile builds, with a new chunk.
compile_new ==
    [ctx |-> [sp |-> [start |-> 0, current |-> 0],
              pp |-> [current |-> Token("EOF", 0, 0, 0),
                      previous |-> Token("EOF", 0, 0, 0)],
              ps |-> [panic_mode |-> FALSE, had_error |-> FALSE],
              can_assign |-> FALSE,
              line |-> 1],
     chunk |-> Chunk_new,
     stderr |-> <<>>,
     abort |-> ""]

Diagnostic(kind, line, opcode, message) ==
    [kind |-> kind, line |-> line, opcode |-> opcode, message |-> message]

\* error_at without the test of panic_mode
error_at_always(line, message, m) ==
    IF m.abort # "" THEN m
    ELSE [m EXCEPT !.ctx.ps = [panic_mode |-> TRUE, had_error |-> TRUE],
                   !.stderr = Append(@, Diagnostic("Error", line, "", message))]

error_at(line, message, m) ==
    IF m.abort # "" \/ m.ctx.ps.panic_mode THEN m
    ELSE [m EXCEPT !.ctx.ps = [panic_mode |-> TRUE, had_error |-> TRUE],
                   !.stderr = Append(@, Diagnostic("Error", line, "", message))]

Abort(m, msg) == IF m.abort # "" THEN m ELSE [m EXCEPT !.abort = msg]

\* chunk.write(opcode, line) on the chunk of m
emit(m, opcode, line) ==
    IF m.abort # "" THEN m ELSE [m EXCEPT !.chunk = write(@, opcode, line)]

\* chunk.write_u8(v, line) on the chunk of m
emit_u8(m, v, line) ==
    IF m.abort # "" THEN m ELSE [m EXCEPT !.chunk = write_u8(@, v, line)]

RECURSIVE advance_loop(_)

\* advance: the match on what scan_token returned
advance_match(m, r) ==
    IF r.s.abort # ""
    THEN [m EXCEPT !.ctx.sp = r.s.sp, !.ctx.line = r.s.line, !.abort = r.s.abort]
    ELSE IF r.ok
    THEN [m EXCEPT !.ctx.sp = r.s.sp, !.ctx.line = r.s.line, !.ctx.pp.current = r.token]
    ELSE advance_loop(error_at(r.err.line, r.err.message,
                               [m EXCEPT !.ctx.sp = r.s.sp, !.ctx.line = r.s.line]))

\* The loop of advance: scan until a token comes back, reporting the errors.
advance_loop(m) ==
    IF m.abort # "" THEN m
    ELSE advance_match(m, scan_token([sp |-> m.ctx.sp, line |-> m.ctx.line, abort |-> ""]))

advance(m) ==
    IF m.abort # "" THEN m
    ELSE advance_loop([m EXCEPT !.ctx.pp.previous = m.ctx.pp.current])

consume(token_type, message, m) ==
    IF m.ctx.pp.current.token_type = token_type THEN advance(m)
    ELSE error_at(m.ctx.line, message, m)

check(token_type, pp) == pp.current.token_type = token_type

match_token(token_type, m) ==
    IF m.abort # "" \/ ~check(token_type, m.ctx.pp)
    THEN [m |-> m, matched |-> FALSE]
    ELSE [m |-> advance(m), matched |-> TRUE]

FailedToAdd == "Failed to add string literal: Too many string literals"

\* identifier_constant: the match on what add_or_retrieve_string_literal returned
identifier_constant_1(m1, idx, line) ==
    IF ~idx.ok
    THEN [m |-> [m1 EXCEPT !.chunk = idx.chunk], ok |-> FALSE, id |-> 0,
          msg |-> FailedToAdd]
    ELSE IF ~write_string_literal_id(idx.chunk, idx.id, line).ok
    THEN [m |-> Abort(m1, "Failed to write variable as string literal id"),
          ok |-> FALSE, id |-> 0, msg |-> ""]
    ELSE [m |-> [m1 EXCEPT !.chunk = write_string_literal_id(idx.chunk, idx.id, line).chunk],
          ok |-> TRUE, id |-> idx.id, msg |-> ""]

identifier_constant(m) ==
    LET prev == m.ctx.pp.previous
        name == Slice(source, prev.start, prev.start + prev.length)
    IN  IF m.abort # "" THEN [m |-> m, ok |-> FALSE, id |-> 0, msg |-> ""]
        ELSE IF ~name.ok
        THEN [m |-> Abort(m, SliceIndex), ok |-> FALSE, id |-> 0, msg |-> ""]
        ELSE identifier_constant_1(
                 emit(m, "StringLiteral", prev.line),
                 add_or_retrieve_string_literal(
                     emit(m, "StringLiteral", prev.line).chunk, name.str),
                 prev.line)

parse_variable(error_msg, m) ==
    identifier_constant(consume("Identifier", error_msg, m))

define_variable(global, m) ==
    emit_u8(emit(m, "DefineGlobal", m.ctx.pp.previous.line),
            global, m.ctx.pp.previous.line)

\* The while loop of synchronize without the test of the previous token.
RECURSIVE synchronize_loop_no_semicolon(_)
synchronize_loop_no_semicolon(m) ==
    IF m.abort # "" THEN m
    ELSE IF m.ctx.pp.current.token_type = "EOF" THEN m
    ELSE IF m.ctx.pp.current.token_type \in
                {"Class", "Fun", "Var", "For", "If", "While", "Print", "Return"}
    THEN m
    ELSE synchronize_loop_no_semicolon(advance(m))

\* The while loop of synchronize.
RECURSIVE synchronize_loop(_)
synchronize_loop(m) ==
    IF m.abort # "" THEN m
    ELSE IF m.ctx.pp.current.token_type = "EOF" THEN m
    ELSE IF m.ctx.pp.previous.token_type = "Semicolon" THEN m
    ELSE IF m.ctx.pp.current.token_type \in
                {"Class", "Fun", "Var", "For", "If", "While", "Print", "Return"}
    THEN m
    ELSE synchronize_loop(advance(m))

synchronize(m) ==
    IF m.abort # "" THEN m
    ELSE synchronize_loop([m EXCEPT !.ctx.ps.panic_mode = FALSE])

RECURSIVE parse_precedence(_, _)

expression(m) == parse_precedence(Precedence("Assignment"), m)

\* named_variable: the branch that writes OP_SET_GLOBAL after the right-hand side
named_variable_set(arg, m) ==
    emit_u8(emit(m, "SetGlobal", m.ctx.pp.previous.line), arg, m.ctx.pp.previous.line)

\* named_variable: the branch that writes OP_GET_GLOBAL
named_variable_get(arg, m) ==
    emit_u8(emit(m, "GetGlobal", m.ctx.pp.previous.line), arg, m.ctx.pp.previous.line)

named_variable_2(arg, mt) ==
    IF mt.matched THEN named_variable_set(arg, expression(mt.m))
    ELSE named_variable_get(arg, mt.m)

named_variable_1(m, arg) ==
    IF ~arg.ok THEN error_at(m.ctx.pp.previous.line, arg.msg, arg.m)
    ELSE IF arg.m.ctx.can_assign
    THEN named_variable_2(arg.id, match_token("Equal", arg.m))
    ELSE named_variable_get(arg.id, arg.m)

named_variable(m) == named_variable_1(m, identifier_constant(m))

variable(m) == named_variable(m)

\* fn string of compiler.rs: the match on what add_or_retrieve_string_literal returned
compiler_string_1(m1, idx, line) ==
    IF ~idx.ok THEN error_at(line, idx.msg, [m1 EXCEPT !.chunk = idx.chunk])
    ELSE IF ~write_string_literal_id(idx.chunk, idx.id, line).ok
    THEN Abort(m1, "Failed to write string literal id")
    ELSE [m1 EXCEPT !.chunk = write_string_literal_id(idx.chunk, idx.id, line).chunk]

\* fn string of compiler.rs
compiler_string(m) ==
    LET prev == m.ctx.pp.previous
        str  == Slice(source, prev.start + 1, prev.start + prev.length - 1)
    IN  IF m.abort # "" THEN m
        ELSE IF ~str.ok THEN Abort(m, SliceIndex)
        ELSE compiler_string_1(
                 emit(m, "StringLiteral", prev.line),
                 add_or_retrieve_string_literal(
                     emit(m, "StringLiteral", prev.line).chunk, str.str),
                 prev.line)

\* fn number of compiler.rs: the match on what add_constant returned
compiler_number_1(m1, idx, line) ==
    IF idx.ok THEN emit_u8([m1 EXCEPT !.chunk = idx.chunk], idx.idx, line)
    ELSE error_at(line, idx.msg, m1)

\* fn number of compiler.rs
compiler_number(m) ==
    LET prev == m.ctx.pp.previous
        str  == Slice(source, prev.start, prev.start + prev.length)
        num  == ParseF64(str.str)
    IN  IF m.abort # "" THEN m
        ELSE IF ~str.ok THEN Abort(m, SliceIndex)
        ELSE IF ~num.ok THEN Abort(m, "called Result::unwrap() on an Err value")
        ELSE compiler_number_1(
                 emit(m, "Constant", prev.line),
                 add_constant(emit(m, "Constant", prev.line).chunk,
                              Value_Number(num.value)),
                 prev.line)

grouping(m) ==
    consume("RightParen", "Expect ')' after expression.", expression(m))

\* unary: the match on the operator after the operand is compiled
unary_1(operator_type, m1) ==
    CASE operator_type = "Bang" -> emit(m1, "Not", m1.ctx.pp.previous.line)
      [] operator_type = "Minus" -> emit(m1, "Negate", m1.ctx.pp.previous.line)
      [] OTHER -> Abort(m1, "Unknown unary operator")

unary(m) ==
    unary_1(m.ctx.pp.previous.token_type, parse_precedence(Precedence("Unary"), m))

\* binary: the match on the operator after the right operand is compiled
binary_1(operator_type, m1) ==
    LET line == m1.ctx.pp.previous.line
    IN  CASE operator_type = "BangEqual" -> emit(emit(m1, "Equal", line), "Not", line)
          [] operator_type = "EqualEqual" -> emit(m1, "Equal", line)
          [] operator_type = "Greater" -> emit(m1, "Greater", line)
          [] operator_type = "GreaterEqual" -> emit(emit(m1, "Less", line), "Not", line)
          [] operator_type = "Less" -> emit(m1, "Less", line)
          [] operator_type = "LessEqual" -> emit(emit(m1, "Greater", line), "Not", line)
          [] operator_type = "Plus" -> emit(m1, "Add", line)
          [] operator_type = "Minus" -> emit(m1, "Subtract", line)
          [] operator_type = "Star" -> emit(m1, "Multiply", line)
          [] operator_type = "Slash" -> emit(m1, "Divide", line)
          [] OTHER -> Abort(m1, "Unknown binary operator")

\* binary with the right operand parsed at the operator's own precedence
binary_same_precedence(m) ==
    binary_1(m.ctx.pp.previous.token_type,
             parse_precedence(query(m.ctx.pp.previous.token_type).precedence, m))

binary(m) ==
    LET operator_type == m.ctx.pp.previous.token_type
        precedence == next_higher_precedence(query(operator_type).precedence)
    IN  IF precedence < 0 THEN Abort(m, "No higher precedence than Primary")
        ELSE binary_1(operator_type, parse_precedence(precedence, m))

literal(m) ==
    LET prev == m.ctx.pp.previous
    IN  CASE prev.token_type = "True" -> emit(m, "True", prev.line)
          [] prev.token_type = "False" -> emit(m, "False", prev.line)
          [] prev.token_type = "Nil" -> emit(m, "Nil", prev.line)
          [] OTHER -> Abort(m, "Unknown literal type")

\* prefix_rule(chunk, source, ctx) for the prefix function named by the rule
prefix_rule(rule, m) ==
    CASE rule = "grouping" -> grouping(m)
      [] rule = "unary" -> unary(m)
      [] rule = "variable" -> variable(m)
      [] rule = "string" -> compiler_string(m)
      [] rule = "number" -> compiler_number(m)
      [] rule = "literal" -> literal(m)

RECURSIVE infix_loop(_, _)

\* parse_precedence: the body of its while loop, after the advance
infix_loop_1(precedence, m1) ==
    IF m1.abort # "" THEN m1
    ELSE IF query(m1.ctx.pp.previous.token_type).infix = "none"
    THEN Abort(m1, UnwrapNone)
    ELSE infix_loop(precedence, binary(m1))

\* The while loop of parse_precedence.
infix_loop(precedence, m) ==
    IF m.abort # "" THEN m
    ELSE IF precedence <= query(m.ctx.pp.current.token_type).precedence
    THEN infix_loop_1(precedence, advance(m))
    ELSE m

parse_precedence_3(mt) ==
    IF mt.matched
    THEN error_at(mt.m.ctx.pp.previous.line, "Invalid assignment target.", mt.m)
    ELSE mt.m

\* parse_precedence: the test of can_assign after the loop
parse_precedence_2(m3) ==
    IF m3.ctx.can_assign THEN parse_precedence_3(match_token("Equal", m3)) ELSE m3

\* parse_precedence: after the advance
parse_precedence_1(precedence, m1) ==
    IF m1.abort # "" THEN m1
    ELSE IF query(m1.ctx.pp.previous.token_type).prefix = "none"
    THEN error_at(m1.ctx.pp.previous.line, "Expect expression.", m1)
    ELSE parse_precedence_2(
             infix_loop(precedence,
                 prefix_rule(query(m1.ctx.pp.previous.token_type).prefix,
                     [m1 EXCEPT !.ctx.can_assign =
                                    precedence <= Precedence("Assignment")])))

parse_precedence(precedence, m) == parse_precedence_1(precedence, advance(m))

print_statement_1(m1) == emit(m1, "Print", m1.ctx.pp.previous.line)

print_statement(m) ==
    print_statement_1(consume("Semicolon", "Expect ';' after value.", expression(m)))

expression_statement_1(m1) == emit(m1, "Pop", m1.ctx.pp.previous.line)

expression_statement(m) ==
    expression_statement_1(
        consume("Semicolon", "Expect ';' after expression.", expression(m)))

statement_1(mt) ==
    IF mt.matched THEN print_statement(mt.m) ELSE expression_statement(mt.m)

statement(m) == statement_1(match_token("Print", m))

var_declaration_3(global, m2) ==
    define_variable(global,
        consume("Semicolon", "Expect ';' after variable declaration.", m2))

var_declaration_2(global, mt) ==
    var_declaration_3(global,
        IF mt.matched THEN expression(mt.m)
        ELSE emit(mt.m, "Nil", mt.m.ctx.pp.previous.line))

\* var_declaration: the match on what parse_variable returned
var_declaration_1(global) ==
    IF ~global.ok
    THEN error_at(global.m.ctx.pp.previous.line, global.msg, global.m)
    ELSE var_declaration_2(global.id, match_token("Equal", global.m))

var_declaration(m) ==
    var_declaration_1(parse_variable("Expect variable name.", advance(m)))

\* declaration: the test of panic_mode after the declaration is parsed
declaration_1(m1) == IF m1.ctx.ps.panic_mode THEN synchronize(m1) ELSE m1

\* declaration without the parse of a var_declaration or statement
declaration_parses_nothing(m) == declaration_1(m)

declaration(m) ==
    declaration_1(IF m.ctx.pp.current.token_type = "Var" THEN var_declaration(m)
                  ELSE statement(m))

\* The end of compile: the turn of the loop that meets EOF, the consume and
\* the final OP_RETURN.
compile_end_1(m1) == emit(m1, "Return", m1.ctx.line)

compile_end(m) ==
    compile_end_1(consume("EOF", "Expect end of expression.", match_token("EOF", m).m))

\* What compile returns (compiler.rs:149): Ok(chunk), whatever ps.had_error is.
compile_return(m) == [ok |-> TRUE, chunk |-> m.chunk]

----------------------------------------------------------------------------
(* vm.rs.  Each arm of the match in run is an operator from (chunk, env,    *)
(* ip) to a step [env, ip, out, err, status, msg]: status "run" goes on,    *)
(* "Ok" and "RuntimeError" are what run returns, "panic" is an abort.       *)

Env_new == [stack |-> <<>>, dynamic_strings |-> DynamicStringStorage_new]

push(stack, value) == Append(stack, value)

\* Stack::pop: values.pop().unwrap()
pop(stack) ==
    IF stack = <<>> THEN [ok |-> FALSE, value |-> Value_Nil, stack |-> stack]
    ELSE [ok |-> TRUE, value |-> stack[Len(stack)],
          stack |-> SubSeq(stack, 1, Len(stack) - 1)]

\* A reset that leaves the values where they are.
reset_keeps(stack) == stack

reset(stack) == <<>>

\* Stack::peek: values[len - 1 - distance]
stack_peek(stack, distance) ==
    IF Len(stack) - 1 - distance < 0 THEN [ok |-> FALSE, value |-> Value_Nil]
    ELSE [ok |-> TRUE, value |-> stack[Len(stack) - distance]]

Go(e, i) == [env |-> e, ip |-> i, out |-> <<>>, err |-> <<>>, status |-> "run", msg |-> ""]

Panic(e, i, msg) ==
    [env |-> e, ip |-> i, out |-> <<>>, err |-> <<>>, status |-> "panic", msg |-> msg]

\* A test of falsiness that also takes the number 0 for false.
is_falsy_zero(value) ==
    \/ value.t = "Nil"
    \/ (value.t = "Bool" /\ ~value.b)
    \/ (value.t = "Number" /\ value.n = Fin(0, 1))

is_falsy(value) == value.t = "Nil" \/ (value.t = "Bool" /\ ~value.b)

\* values_equal: [ok |-> FALSE] when read_string_literal panics.
values_equal(a, b, ch) ==
    LET a_str == read_string_literal(ch, a.id)
        b_str == read_string_literal(ch, b.id)
    IN  IF a.t = "Nil" /\ b.t = "Nil" THEN [ok |-> TRUE, eq |-> TRUE]
        ELSE IF a.t = "Bool" /\ b.t = "Bool" THEN [ok |-> TRUE, eq |-> a.b = b.b]
        ELSE IF a.t = "Number" /\ b.t = "Number" THEN [ok |-> TRUE, eq |-> FEq(a.n, b.n)]
        ELSE IF a.t = "String" /\ b.t = "String"
        THEN IF ~a_str.ok \/ ~b_str.ok THEN [ok |-> FALSE, eq |-> FALSE]
             ELSE [ok |-> TRUE, eq |-> a_str.str = b_str.str]
        ELSE [ok |-> TRUE, eq |-> FALSE]

\* runtime_error: print the diagnostic and reset the stack.
runtime_error(stack, opcode, line, message) ==
    [stack |-> reset(stack), err |-> <<Diagnostic("Runtime Error", line, opcode, message)>>]

RuntimeError(e, i, opcode, line, message) ==
    LET r == runtime_error(e.stack, opcode, line, message)
    IN  [env |-> [e EXCEPT !.stack = r.stack], ip |-> i, out |-> <<>>,
         err |-> r.err, status |-> "RuntimeError", msg |-> ""]

Printed(value, str) == [t |-> value.t, n |-> value.n, b |-> value.b, str |-> str]

\* print_value: [ok |-> FALSE] when the string lookup panics.
print_value(value, ch, e) ==
    LET str == IF StringId_is_literal(value.id) THEN read_string_literal(ch, value.id)
               ELSE DynamicStringStorage_get_string(e.dynamic_strings, value.id)
    IN  IF value.t # "String" THEN [ok |-> TRUE, out |-> <<Printed(value, <<>>)>>]
        ELSE IF ~str.ok THEN [ok |-> FALSE, out |-> <<>>]
        ELSE [ok |-> TRUE, out |-> <<Printed(value, str.str)>>]

run_Constant(ch, e, i) ==
    LET constant == read_constant(ch, i + 1)
    IN  IF ~constant.ok THEN Panic(e, i, IndexOutOfBounds)
        ELSE Go([e EXCEPT !.stack = push(@, constant.value)], i + 2)

run_StringLiteral(ch, e, i) ==
    LET string_idx == byte(ch, i + 1)
    IN  IF string_idx < 0 THEN Panic(e, i, IndexOutOfBounds)
        ELSE Go([e EXCEPT !.stack = push(@, Value_String(string_idx))], i + 2)

run_Nil(ch, e, i) == Go([e EXCEPT !.stack = push(@, Value_Nil)], i + 1)

run_True(ch, e, i) == Go([e EXCEPT !.stack = push(@, Value_Bool(TRUE))], i + 1)

run_False(ch, e, i) == Go([e EXCEPT !.stack = push(@, Value_Bool(FALSE))], i + 1)

run_Equal(ch, e, i) ==
    LET b  == pop(e.stack)
        a  == pop(b.stack)
        eq == values_equal(a.value, b.value, ch)
    IN  IF ~b.ok THEN Panic(e, i, UnwrapNone)
        ELSE IF ~a.ok THEN Panic([e EXCEPT !.stack = b.stack], i, UnwrapNone)
        ELSE IF ~eq.ok THEN Panic([e EXCEPT !.stack = a.stack], i, IndexOutOfBounds)
        ELSE Go([e EXCEPT !.stack = push(a.stack, Value_Bool(eq.eq))], i + 1)

\* a.as_number() $op b.as_number(), wrapped by $res_type
BinaryOp(op, x, y) ==
    CASE op = ">" -> Value_Bool(FGt(x, y))
      [] op = "<" -> Value_Bool(FLt(x, y))
      [] op = "-" -> Value_Number(FSub(x, y))
      [] op = "*" -> Value_Number(FMul(x, y))
      [] op = "/" -> Value_Number(FDiv(x, y))

\* macro binary!
binary_macro(e, op, i) ==
    LET b == pop(e.stack)
        a == pop(b.stack)
        x == as_number(a.value)
        y == as_number(b.value)
    IN  IF ~b.ok THEN Panic(e, i, UnwrapNone)
        ELSE IF ~a.ok THEN Panic([e EXCEPT !.stack = b.stack], i, UnwrapNone)
        ELSE IF ~x.ok \/ ~y.ok THEN Panic([e EXCEPT !.stack = a.stack], i, ExpectedNumber)
        ELSE Go([e EXCEPT !.stack = push(a.stack, BinaryOp(op, x.value, y.value))], i + 1)

OperandsMustBe == "Operands must be two numbers or two strings"

\* An arm for mismatched operands that pushes nil and goes on.
run_Add_mismatch_goes_on(ch, e2, i) ==
    Go([e2 EXCEPT !.stack = push(@, Value_Nil)], i + 1)

\* OpCode::Add: the arm of the operands that are neither two numbers nor two
\* strings; e2 is the environment after the two pops.
run_Add_mismatch(ch, e2, i) ==
    RuntimeError(e2, i, "Add", get_line(ch, i), OperandsMustBe)

run_Add(ch, e, i) ==
    LET b == pop(e.stack)
        a == pop(b.stack)
        e2 == [e EXCEPT !.stack = a.stack]
        a_str == read_string_literal(ch, a.value.id)
        b_str == read_string_literal(ch, b.value.id)
        new_string == a_str.str \o b_str.str
        new_dynamic_string == DynamicStringStorage_add_string(e.dynamic_strings, new_string)
    IN  IF ~b.ok THEN Panic(e, i, UnwrapNone)
        ELSE IF ~a.ok THEN Panic([e EXCEPT !.stack = b.stack], i, UnwrapNone)
        ELSE IF a.value.t = "Number" /\ b.value.t = "Number"
        THEN Go([e2 EXCEPT !.stack = push(@, Value_Number(FAdd(a.value.n, b.value.n)))],
                i + 1)
        ELSE IF a.value.t = "String" /\ b.value.t = "String"
        THEN IF ~a_str.ok \/ ~b_str.ok THEN Panic(e2, i, IndexOutOfBounds)
             ELSE IF ~new_dynamic_string.ok THEN Panic(e2, i, "Too many dynamic strings")
             ELSE Go([stack |-> push(a.stack, Value_String(new_dynamic_string.id)),
                      dynamic_strings |-> new_dynamic_string.st], i + 1)
        ELSE run_Add_mismatch(ch, e2, i)

run_Not(ch, e, i) ==
    LET value == pop(e.stack)
    IN  IF ~value.ok THEN Panic(e, i, UnwrapNone)
        ELSE Go([e EXCEPT !.stack = push(value.stack, Value_Bool(is_falsy(value.value)))],
                i + 1)

OperandMustBe == "Operand must be a number"

\* A negation that reads its operand with as_number, without the test.
run_Negate_unchecked(ch, e, i) ==
    LET value == pop(e.stack)
    IN  IF ~value.ok THEN Panic(e, i, UnwrapNone)
        ELSE IF ~as_number(value.value).ok
        THEN Panic([e EXCEPT !.stack = value.stack], i, ExpectedNumber)
        ELSE Go([e EXCEPT !.stack =
                    push(value.stack, Value_Number(FNeg(as_number(value.value).value)))],
                i + 1)

run_Negate(ch, e, i) ==
    LET top   == stack_peek(e.stack, 0)
        value == pop(e.stack)
    IN  IF ~top.ok THEN Panic(e, i, IndexOutOfBounds)
        ELSE IF ~is_number(top.value)
        THEN RuntimeError(e, i, "Negate", get_line(ch, i), OperandMustBe)
        ELSE Go([e EXCEPT !.stack =
                    push(value.stack, Value_Number(FNeg(as_number(value.value).value)))],
                i + 1)

run_Print(ch, e, i) ==
    LET value == pop(e.stack)
        e2    == [e EXCEPT !.stack = value.stack]
        p     == print_value(value.value, ch, e2)
    IN  IF ~value.ok THEN Panic(e, i, UnwrapNone)
        ELSE IF ~p.ok THEN Panic(e2, i, IndexOutOfBounds)
        ELSE [Go(e2, i + 1) EXCEPT !.out = p.out]

run_Return(ch, e, i) ==
    LET e2 == IF e.stack = <<>> THEN e ELSE [e EXCEPT !.stack = pop(e.stack).stack]
    IN  [Go(e2, i) EXCEPT !.status = "Ok"]

NoArmOpcodes == {"Pop", "GetGlobal", "DefineGlobal", "SetGlobal"}

NoArm == "run has no arm for this opcode"

\* chunk.byte(ip) and OpCode::from_u8 at the head of the loop of run
decode(ch, i) ==
    IF byte(ch, i) < 0 THEN "IndexOutOfBounds" ELSE from_u8(byte(ch, i))

----------------------------------------------------------------------------
(* Source texts *)

\* The largest numeric literal of the generated programs.
MaxNum == 2

RECURSIVE Join(_)
Join(lexemes) ==
    IF lexemes = <<>> THEN <<>>
    ELSE IF Len(lexemes) = 1 THEN lexemes[1]
    ELSE lexemes[1] \o <<" ">> \o Join(Tail(lexemes))

DigitChars == <<"0", "1", "2", "3", "4", "5", "6", "7", "8", "9">>

NumLex(n) == <<DigitChars[n + 1]>>

StrLex(s) == <<"\"">> \o s \o <<"\"">>

KwPrint == <<"p", "r", "i", "n", "t">>

KwVar == <<"v", "a", "r">>

KwTrue == <<"t", "r", "u", "e">>

KwFalse == <<"f", "a", "l", "s", "e">>

KwNil == <<"n", "i", "l">>

NumAtoms == {NumLex(n) : n \in 0..MaxNum}

StrAtoms == {StrLex(<<>>), StrLex(<<"a">>), StrLex(<<"b">>), StrLex(<<"a", "b">>)}

Atoms == NumAtoms \cup StrAtoms \cup {KwTrue, KwFalse, KwNil}

BinaryLex ==
    {<<"+">>, <<"-">>, <<"*">>, <<"/">>, <<"<">>, <<">">>, <<"<", "=">>,
     <<">", "=">>, <<"=", "=">>, <<"!", "=">>}

EqualityLex == {<<"=", "=">>, <<"!", "=">>}

UnaryLex == {<<"!">>, <<"-">>}

\* print A op B;
BinaryPrograms ==
    {Join(<<KwPrint, a, op, b, <<";">> >>) : a \in Atoms, op \in BinaryLex, b \in Atoms}

\* print A + B op C;  print C op A + B;  print A + B == C + D;  print A + (B + C);
\* programs whose operands are results of a string concatenation
ConcatPrograms ==
    {Join(<<KwPrint, a, <<"+">>, b, op, c, <<";">> >>) :
        a \in StrAtoms, b \in StrAtoms, op \in EqualityLex \cup {<<"+">>},
        c \in StrAtoms \cup {NumLex(1), KwNil}}
    \cup
    {Join(<<KwPrint, c, op, a, <<"+">>, b, <<";">> >>) :
        a \in StrAtoms, b \in StrAtoms, op \in EqualityLex,
        c \in StrAtoms \cup {NumLex(1), KwNil}}
    \cup
    {Join(<<KwPrint, a, <<"+">>, b, <<"=", "=">>, c, <<"+">>, d, <<";">> >>) :
        a \in StrAtoms, b \in StrAtoms, c \in StrAtoms, d \in StrAtoms}
    \cup
    {Join(<<KwPrint, a, <<"+">>, <<"(">>, b, <<"+">>, c, <<")">>, <<";">> >>) :
        a \in StrAtoms, b \in StrAtoms, c \in StrAtoms}

\* print u A;  print u u A;
UnaryPrograms ==
    {Join(<<KwPrint, u, a, <<";">> >>) : u \in UnaryLex, a \in Atoms}
    \cup
    {Join(<<KwPrint, u, v, a, <<";">> >>) : u \in UnaryLex, v \in UnaryLex, a \in Atoms}

\* print 0 op1 1 op2 2;
PrecedencePrograms ==
    {Join(<<KwPrint, NumLex(0), op1, NumLex(1), op2, NumLex(2), <<";">> >>) :
        op1 \in BinaryLex, op2 \in BinaryLex}

\* Programs of the specification's scenarios, programs with scan and syntax
\* errors, with globals, with comments, line breaks and a non-ASCII character.
ScenarioPrograms == {
    KwPrint \o <<" ", "1", " ", "+", " ", "2", " ", "*", " ", "3", ";">>,
    KwPrint \o <<" ", "(", "1", " ", "+", " ", "2", ")", " ", "*", " ", "3", ";">>,
    KwVar \o <<" ", "g", " ", "=", " ">> \o StrLex(<<"h", "i">>) \o <<";", " ">>
        \o KwPrint \o <<" ", "g", " ", "+", " ">> \o StrLex(<<" ", "t">>) \o <<";">>,
    KwPrint \o <<" ", "1", " ", "=", "=", " ", "1", ".", "0", ";", " ">>
        \o KwPrint \o <<" ">> \o KwNil \o <<" ", "=", "=", " ">> \o KwFalse \o <<";", " ">>
        \o KwPrint \o <<" ">> \o StrLex(<<"a">>) \o <<" ", "!", "=", " ">>
        \o StrLex(<<"b">>) \o <<";">>,
    KwVar \o <<" ", "x", " ", "=", " ", "3", ";", " ", "x", " ", "=", " ", "x", " ",
               "+", " ", "4", ";", " ">> \o KwPrint \o <<" ", "x", ";">>,
    KwPrint \o <<" ", "-">> \o KwTrue \o <<";">>,
    KwPrint \o <<" ", "1", " ", "+", " ", "-">> \o KwTrue \o <<";">>,
    KwPrint \o <<" ", "1", " ", "+", " ", "(", "2", " ", "+", " ">> \o KwNil \o <<")", ";">>,
    StrLex(<<"a">>) \o <<" ", "*", " ", "2", ";">>,
    KwPrint \o <<" ", "a", ";">>,
    StrLex(<<"a", "b", "c">>) \o <<";">>,
    <<"\"", "a", "b", "c">>,
    KwVar \o <<" ", "x", " ", "=", " ", "5", ";", " ">> \o KwPrint \o <<" ", "-", "-", "x", ";">>,
    KwPrint \o <<" ", "!", "!">> \o KwNil \o <<";">>,
    KwPrint \o <<" ">> \o StrLex(<<"a">>) \o <<" ", "+", " ">> \o StrLex(<<"b">>)
        \o <<" ", "+", " ">> \o StrLex(<<"c">>) \o <<";">>,
    <<"1", ";">>,
    <<"1", ".", "5", " ", "+", " ", "2", ";", " ", "1", "2", ";">>,
    KwVar \o <<" ", "a", ";", " ", "a", " ", "=", " ", "a", ";">>,
    KwVar \o <<" ", "a", " ", "=", " ", "1", ";", " ">> \o KwVar
        \o <<" ", "a", " ", "=", " ", "2", ";", " ">> \o KwPrint \o <<" ", "a", ";">>,
    <<"x", " ", "=", " ", "1", ";">>,
    KwPrint \o <<" ", ";">>,
    KwPrint \o <<" ", ";", " ", "1", ";">>,
    KwPrint \o <<" ", "1", " ", "+", ";">>,
    KwPrint \o <<" ", "1", " ", "2", ";">>,
    KwPrint \o <<" ", "(", "1", ";">>,
    KwPrint \o <<" ", "1">>,
    <<"@">>,
    <<"@", " ">> \o KwPrint \o <<" ", "1", ";">>,
    <<"@", " ">> \o KwPrint \o <<" ", ";">>,
    KwPrint \o <<" ", "1", ";", " ", "#", " ">> \o KwPrint \o <<" ", "+", ";">>,
    <<"a", " ", "+", " ", "b", " ", "=", " ", "c", ";">>,
    <<"-", "a", " ", "=", " ", "1", ";">>,
    <<"1", " ", "=", " ", "2", ";">>,
    KwVar \o <<" ", "1", ";">>,
    KwVar \o <<" ", "x", " ", "=", ";", " ">> \o KwPrint \o <<" ", "x", ";">>,
    <<"+", " ", "+", " ">> \o KwVar \o <<" ", "x", ";">>,
    <<"/", "/", " ", "c", "\n">> \o KwPrint \o <<" ", "-", "1", ";", "\n">>,
    KwPrint \o <<"\n", "\t">> \o StrLex(<<"a", "\n", "b">>) \o <<" ", "+", "\r", "\n", "1", ";">>,
    KwPrint \o <<" ", "1", " ", "/", " ", "2", ";", " ", "/", "/", "x">>,
    <<>>,
    <<NON_ASCII>>,
    KwPrint \o <<" ", "1", ";", " ", NON_ASCII>>,
    KwPrint \o <<" ">> \o StrLex(<<NON_ASCII>>) \o <<";">>,
    <<"/", "/", NON_ASCII>>
    }

Sources ==
    BinaryPrograms \cup ConcatPrograms \cup UnaryPrograms \cup PrecedencePrograms
        \cup ScenarioPrograms

----------------------------------------------------------------------------
(* The program: interpret(source, debug) *)

\* No call has been made on a chunk by itself.
NoCall ==
    [op |-> "none", str |-> <<>>, value |-> Value_Nil, ok |-> TRUE, id |-> 0, msg |-> ""]

Init ==
    /\ source \in Sources
    /\ pc = "interpret"
    /\ ctx = compile_new.ctx
    /\ chunk = Chunk_new
    /\ env = Env_new
    /\ ip = 0
    /\ stdout = <<>>
    /\ stderr = <<>>
    /\ result = "None"
    /\ panic = ""
    /\ call = NoCall
    /\ handed = {}

Compiler == [ctx |-> ctx, chunk |-> chunk, stderr |-> stderr, abort |-> ""]

\* The compiler moved to state m; a panic in it ends the program.
CompilerStep(m, next_pc) ==
    /\ ctx' = m.ctx
    /\ chunk' = m.chunk
    /\ stderr' = m.stderr
    /\ panic' = m.abort
    /\ pc' = IF m.abort # "" THEN "done" ELSE next_pc
    /\ UNCHANGED <<source, env, ip, stdout, result, call, handed>>

\* interpret: Env::new(), then compile up to its priming advance.
Interpret ==
    /\ pc = "interpret"
    /\ CompilerStep(advance(compile_new), "compile")

\* One turn of the loop of compile that parses a declaration.
CompileDeclaration ==
    /\ pc = "compile"
    /\ ~check("EOF", ctx.pp)
    /\ CompilerStep(declaration(Compiler), "compile")

\* interpret: the match on what compile returned, m2 being the compiler's
\* last state.
InterpretMatch(m2) ==
    /\ ctx' = m2.ctx
    /\ chunk' = m2.chunk
    /\ stderr' = m2.stderr
    /\ panic' = m2.abort
    /\ pc' = IF m2.abort # "" THEN "done"
             ELSE IF compile_return(m2).ok THEN "run" ELSE "done"
    /\ result' = IF m2.abort = "" /\ ~compile_return(m2).ok THEN "CompileError"
                 ELSE result
    /\ ip' = 0
    /\ UNCHANGED <<source, env, stdout, call, handed>>

\* The turn of the loop of compile that meets EOF, the rest of compile, and
\* the match in interpret on what compile returned.
CompileReturn ==
    /\ pc = "compile"
    /\ check("EOF", ctx.pp)
    /\ InterpretMatch(compile_end(Compiler))

\* The VM took the step r.
Step(r) ==
    /\ env' = r.env
    /\ ip' = r.ip
    /\ stdout' = stdout \o r.out
    /\ stderr' = stderr \o r.err
    /\ pc' = IF r.status = "run" THEN "run" ELSE "done"
    /\ result' = IF r.status \in {"Ok", "RuntimeError"} THEN r.status ELSE result
    /\ panic' = IF r.status = "panic" THEN r.msg ELSE panic
    /\ UNCHANGED <<source, ctx, chunk, call, handed>>

Fetch(opcode) == pc = "run" /\ decode(chunk, ip) = opcode

OpConstant == Fetch("Constant") /\ Step(run_Constant(chunk, env, ip))

OpStringLiteral == Fetch("StringLiteral") /\ Step(run_StringLiteral(chunk, env, ip))

OpNil == Fetch("Nil") /\ Step(run_Nil(chunk, env, ip))

OpTrue == Fetch("True") /\ Step(run_True(chunk, env, ip))

OpFalse == Fetch("False") /\ Step(run_False(chunk, env, ip))

OpEqual == Fetch("Equal") /\ Step(run_Equal(chunk, env, ip))

OpGreater == Fetch("Greater") /\ Step(binary_macro(env, ">", ip))

OpLess == Fetch("Less") /\ Step(binary_macro(env, "<", ip))

OpAdd == Fetch("Add") /\ Step(run_Add(chunk, env, ip))

OpSubtract == Fetch("Subtract") /\ Step(binary_macro(env, "-", ip))

OpMultiply == Fetch("Multiply") /\ Step(binary_macro(env, "*", ip))

OpDivide == Fetch("Divide") /\ Step(binary_macro(env, "/", ip))

OpNot == Fetch("Not") /\ Step(run_Not(chunk, env, ip))

OpNegate == Fetch("Negate") /\ Step(run_Negate(chunk, env, ip))

OpPrint == Fetch("Print") /\ Step(run_Print(chunk, env, ip))

OpReturn == Fetch("Return") /\ Step(run_Return(chunk, env, ip))

\* The dispatch of run reaches no arm: the byte is outside the code, is no
\* opcode, or is one of the opcodes the match in run does not list.
DispatchFails ==
    /\ pc = "run"
    /\ decode(chunk, ip) \in NoArmOpcodes \cup {"IndexOutOfBounds", "Invalid"}
    /\ Step(Panic(env, ip,
                  CASE decode(chunk, ip) = "IndexOutOfBounds" -> IndexOutOfBounds
                    [] decode(chunk, ip) = "Invalid" -> "Invalid opcode"
                    [] OTHER -> NoArm))

Next ==
    \/ Interpret
    \/ CompileDeclaration
    \/ CompileReturn
    \/ OpConstant
    \/ OpStringLiteral
    \/ OpNil
    \/ OpTrue
    \/ OpFalse
    \/ OpEqual
    \/ OpGreater
    \/ OpLess
    \/ OpAdd
    \/ OpSubtract
    \/ OpMultiply
    \/ OpDivide
    \/ OpNot
    \/ OpNegate
    \/ OpPrint
    \/ OpReturn
    \/ DispatchFails

Spec == Init /\ [][Next]_vars

\* The steps of compile and of interpret around it.
CompilerNext == Interpret \/ CompileDeclaration \/ CompileReturn

\* The steps of run.
VMNext ==
    \/ OpConstant
    \/ OpStringLiteral
    \/ OpNil
    \/ OpTrue
    \/ OpFalse
    \/ OpEqual
    \/ OpGreater
    \/ OpLess
    \/ OpAdd
    \/ OpSubtract
    \/ OpMultiply
    \/ OpDivide
    \/ OpNot
    \/ OpNegate
    \/ OpPrint
    \/ OpReturn
    \/ DispatchFails

\* The program is one thread that takes its next step whenever it has one:
\* weak fairness of the VM's steps and of the compiler's.  The latter is
\* WF_vars(CompilerNext) written out, []<>~ENABLED <<A>>_v \/ []<><<A>>_v, with
\* ENABLED <<CompilerNext>>_vars as the predicate it equals: the guards of the
\* compiler's actions cover pc = "interpret" and pc = "compile", and each of
\* their steps changes pc or the parser's tokens.
LiveSpec ==
    /\ Spec
    /\ WF_vars(VMNext)
    /\ ([]<>(pc \notin {"interpret", "compile"}) \/ []<><<CompilerNext>>_vars)

----------------------------------------------------------------------------
(* The making of a chunk: by a caller that interns strings in the literal   *)
(* pool (pc = "literals") or adds constants (pc = "constants"), one call a  *)
(* step, or by compile on a source with more literals than a pool takes.    *)

NameChars ==
    DigitChars \o <<"a", "b", "c", "d", "e", "f", "g", "h", "i", "j", "k", "l", "m",
                    "n", "o", "p", "q", "r", "s", "t", "u", "v", "w", "x", "y", "z">>

\* The k-th of the distinct two-character strings the caller interns.
Name(k) == <<NameChars[(k \div 36) + 1], NameChars[(k % 36) + 1]>>

\* What the caller interns next: a string never interned before, the first
\* string it interned or the last one.
InternInputs ==
    {Name(Len(chunk.string_literals.data))}
    \cup (IF chunk.string_literals.data = <<>> THEN {}
          ELSE {Name(0), Name(Len(chunk.string_literals.data) - 1)})

\* 1;1;1; ... with 256 numeric literals
ManyNumbers == [i \in 1..512 |-> IF i % 2 = 1 THEN "1" ELSE ";"]

\* "00";"01";"02"; ... with 256 distinct string literals
ManyStrings ==
    [i \in 1..1280 |->
        CASE (i - 1) % 5 = 0 -> "\""
          [] (i - 1) % 5 = 1 -> Name((i - 1) \div 5)[1]
          [] (i - 1) % 5 = 2 -> Name((i - 1) \div 5)[2]
          [] (i - 1) % 5 = 3 -> "\""
          [] (i - 1) % 5 = 4 -> ";"]

LargeSources == {ManyNumbers, ManyStrings}

ChunkInit ==
    /\ pc \in {"literals", "constants", "interpret"}
    /\ source \in (IF pc = "interpret" THEN LargeSources ELSE {<<>>})
    /\ ctx = compile_new.ctx
    /\ chunk = Chunk_new
    /\ env = Env_new
    /\ ip = 0
    /\ stdout = <<>>
    /\ stderr = <<>>
    /\ result = "None"
    /\ panic = ""
    /\ call = NoCall
    /\ handed = {}

\* chunk.add_or_retrieve_string_literal(str) returned r.
InternReturned(str, r) ==
    /\ chunk' = r.chunk
    /\ call' = [op |-> "add_or_retrieve_string_literal", str |-> str,
                value |-> Value_Nil, ok |-> r.ok, id |-> r.id, msg |-> r.msg]
    /\ handed' = IF r.ok THEN handed \cup {<<str, r.id>>} ELSE handed
    /\ UNCHANGED <<source, pc, ctx, env, ip, stdout, stderr, result, panic>>

Intern(str) ==
    /\ pc = "literals"
    /\ InternReturned(str, add_or_retrieve_string_literal(chunk, str))

\* chunk.add_constant(value) returned r.
AddConstantReturned(value, r) ==
    /\ chunk' = r.chunk
    /\ call' = [op |-> "add_constant", str |-> <<>>, value |-> value,
                ok |-> r.ok, id |-> r.idx, msg |-> r.msg]
    /\ UNCHANGED <<source, pc, ctx, env, ip, stdout, stderr, result, panic, handed>>

AddConstant(value) ==
    /\ pc = "constants"
    /\ AddConstantReturned(value, add_constant(chunk, value))

ChunkNext ==
    \/ \E str \in InternInputs : Intern(str)
    \/ \E n \in {Len(chunk.constants) % (MaxNum + 1)} :
           AddConstant(Value_Number(Fin(n, 1)))
    \/ Interpret
    \/ CompileDeclaration
    \/ CompileReturn

ChunkSpec == ChunkInit /\ [][ChunkNext]_vars

----------------------------------------------------------------------------
(* A VM's dynamic pool by itself: a caller that adds strings to             *)
(* env.dynamic_strings, one call a step (pc = "strings").                   *)

\* The caller stops adding when the pool's buffer holds this many bytes.
MaxDynamicBytes == 5

DynamicInputs == {<<"a">>, <<"b">>, <<"a", "b">>}

PoolInit ==
    /\ pc = "strings"
    /\ source = <<>>
    /\ ctx = compile_new.ctx
    /\ chunk = Chunk_new
    /\ env = Env_new
    /\ ip = 0
    /\ stdout = <<>>
    /\ stderr = <<>>
    /\ result = "None"
    /\ panic = ""
    /\ call = NoCall
    /\ handed = {}

\* env.dynamic_strings.add_string(str) returned r.
AddStringReturned(str, r) ==
    /\ env' = [env EXCEPT !.dynamic_strings = r.st]
    /\ call' = [op |-> "add_string", str |-> str, value |-> Value_Nil,
                ok |-> r.ok, id |-> r.id, msg |-> ""]
    /\ handed' = IF r.ok THEN handed \cup {<<str, r.id>>} ELSE handed
    /\ UNCHANGED <<source, pc, ctx, chunk, ip, stdout, stderr, result, panic>>

AddString(str) ==
    /\ pc = "strings"
    /\ ByteLen(env.dynamic_strings.string) < MaxDynamicBytes
    /\ AddStringReturned(str, DynamicStringStorage_add_string(env.dynamic_strings, str))

PoolNext == \E str \in DynamicInputs : AddString(str)

PoolSpec == PoolInit /\ [][PoolNext]_vars

----------------------------------------------------------------------------
(* Properties.  An opcode "executes" in a state with pc = "run" whose byte   *)
(* at ip decodes to it; the operands are the values on top of the stack.    *)

Executes(opcode) == pc = "run" /\ decode(chunk, ip) = opcode

\* The operand distance places below the top of the stack.
Operand(distance) == env.stack[Len(env.stack) - distance]

\* The stack below its n topmost values.
Below(n) == SubSeq(env.stack, 1, Len(env.stack) - n)

\* The bytes a String value stands for: an id below 255 is resolved in the
\* chunk's literal pool, any other in the dynamic pool of environment e.
StringBytes(value, e) ==
    IF value.id < 255 THEN read_string_literal(chunk, value.id)
    ELSE DynamicStringStorage_get_string(e.dynamic_strings, value.id)

LastDiagnostic == stderr[Len(stderr)]

Program(lexemes) == Join(<<KwPrint>> \o lexemes \o << <<";">> >>)

\* C1: once a scan or compile error is recorded (had_error), the VM is never
\* run on the chunk, and interpret, when it returns, returns CompileError.
C1_ErrorMeansCompileError ==
    ctx.ps.had_error =>
        /\ pc # "run"
        /\ (pc = "done" /\ panic = "") => result = "CompileError"

\* C2: no state of scanning, compiling or running is an abort, and interpret
\* ends by returning Ok, CompileError or RuntimeError.
C2_NoAbort ==
    /\ panic = ""
    /\ pc = "done" => result \in {"Ok", "CompileError", "RuntimeError"}

\* C3: when OP_SUBTRACT, OP_MULTIPLY, OP_DIVIDE, OP_GREATER or OP_LESS
\* executes and one of its two operands is not a Number, run returns
\* RuntimeError: it does not abort and pushes no result.
C3_NumericOperandsChecked ==
    [][(/\ pc = "run"
        /\ decode(chunk, ip) \in {"Subtract", "Multiply", "Divide", "Greater", "Less"}
        /\ Len(env.stack) >= 2
        /\ (Operand(0).t # "Number" \/ Operand(1).t # "Number"))
       => (/\ result' = "RuntimeError"
           /\ panic' = ""
           /\ Len(env'.stack) <= Len(env.stack) - 2)]_vars

\* C4: when OP_ADD executes with two operands that are neither both Number
\* nor both String, run returns RuntimeError with the message "Operands must
\* be two numbers or two strings" and pushes no result.
C4_AddMismatch ==
    [][(/\ Executes("Add")
        /\ Len(env.stack) >= 2
        /\ ~(Operand(0).t = "Number" /\ Operand(1).t = "Number")
        /\ ~(Operand(0).t = "String" /\ Operand(1).t = "String"))
       => (/\ pc' = "done"
           /\ result' = "RuntimeError"
           /\ panic' = ""
           /\ stderr' = Append(stderr,
                  Diagnostic("Runtime Error", get_line(chunk, ip), "Add",
                             "Operands must be two numbers or two strings"))
           /\ stdout' = stdout
           /\ env'.stack = <<>>)]_vars

\* print nil + nil ; has ended with RuntimeError at its OP_ADD.
C4_Witness ==
    /\ source = Program(<<KwNil, <<"+">>, KwNil>>)
    /\ pc = "done"
    /\ result = "RuntimeError"
    /\ decode(chunk, ip) = "Add"
    /\ LastDiagnostic.message = "Operands must be two numbers or two strings"

\* C5: when OP_NEGATE executes and the top of the stack is not a Number, run
\* returns RuntimeError with the message "Operand must be a number"; when it
\* is a Number n, the top is replaced by Number(-n) and execution goes on.
C5_Negate ==
    [][(Executes("Negate") /\ Len(env.stack) >= 1)
       => IF Operand(0).t # "Number"
          THEN /\ pc' = "done"
               /\ result' = "RuntimeError"
               /\ panic' = ""
               /\ stderr' = Append(stderr,
                      Diagnostic("Runtime Error", get_line(chunk, ip), "Negate",
                                 "Operand must be a number"))
          ELSE /\ pc' = "run"
               /\ ip' = ip + 1
               /\ result' = result
               /\ stderr' = stderr
               /\ env'.stack = Append(Below(1), Value_Number(FNeg(Operand(0).n)))]_vars

\* print - true ; has ended with RuntimeError at its OP_NEGATE.
C5_Witness ==
    /\ source = Program(<< <<"-">>, KwTrue >>)
    /\ pc = "done"
    /\ result = "RuntimeError"
    /\ decode(chunk, ip) = "Negate"
    /\ LastDiagnostic.message = "Operand must be a number"

\* C6: whenever run returns RuntimeError the value stack is empty at the
\* moment of return.
C6_RuntimeErrorEmptiesStack ==
    result = "RuntimeError" => (pc = "done" /\ env.stack = <<>>)

\* print 1 + -true; has returned RuntimeError at its OP_NEGATE, which began
\* with two values on the stack.
C6_Witness ==
    /\ source = KwPrint \o <<" ", "1", " ", "+", " ", "-">> \o KwTrue \o <<";">>
    /\ result = "RuntimeError"
    /\ decode(chunk, ip) = "Negate"
    /\ env.stack = <<>>

\* C7: when OP_ADD executes on two String values, from whichever pool each
\* comes, it pushes a String with a dynamic id >= 255 whose bytes are the
\* left operand's bytes followed by the right operand's.
C7_ConcatenationAnyPool ==
    [][(/\ Executes("Add")
        /\ Len(env.stack) >= 2
        /\ Operand(0).t = "String" /\ Operand(1).t = "String"
        /\ StringBytes(Operand(0), env).ok /\ StringBytes(Operand(1), env).ok)
       => (/\ pc' = "run"
           /\ panic' = ""
           /\ Len(env'.stack) = Len(env.stack) - 1
           /\ env'.stack[Len(env'.stack)].t = "String"
           /\ env'.stack[Len(env'.stack)].id >= 255
           /\ StringBytes(env'.stack[Len(env'.stack)], env') =
                  [ok |-> TRUE,
                   str |-> StringBytes(Operand(1), env).str
                           \o StringBytes(Operand(0), env).str])]_vars

\* C8: for two String values OP_EQUAL pushes Bool(true) when their bytes are
\* equal and Bool(false) when they differ, whether each id is a literal or a
\* dynamic one.
C8_StringEqualityAnyPool ==
    [][(/\ Executes("Equal")
        /\ Len(env.stack) >= 2
        /\ Operand(0).t = "String" /\ Operand(1).t = "String"
        /\ StringBytes(Operand(0), env).ok /\ StringBytes(Operand(1), env).ok)
       => (/\ pc' = "run"
           /\ panic' = ""
           /\ env'.stack =
                  Append(Below(2),
                         Value_Bool(StringBytes(Operand(1), env).str
                                    = StringBytes(Operand(0), env).str)))]_vars

\* C9: OP_EQUAL pops two values, pushes exactly one Bool and never returns
\* RuntimeError; operands of different variants give false, nil and nil give
\* true, two Bools are equal exactly when they have the same truth value.
C9_EqualPushesOneBool ==
    [][(Executes("Equal") /\ Len(env.stack) >= 2)
       => (/\ pc' = "run"
           /\ panic' = ""
           /\ result' # "RuntimeError"
           /\ Len(env'.stack) = Len(env.stack) - 1
           /\ SubSeq(env'.stack, 1, Len(env.stack) - 2) = Below(2)
           /\ env'.stack[Len(env'.stack)].t = "Bool"
           /\ (Operand(0).t # Operand(1).t
                  => env'.stack[Len(env'.stack)] = Value_Bool(FALSE))
           /\ (Operand(0).t = "Nil" /\ Operand(1).t = "Nil"
                  => env'.stack[Len(env'.stack)] = Value_Bool(TRUE))
           /\ (Operand(0).t = "Bool" /\ Operand(1).t = "Bool"
                  => env'.stack[Len(env'.stack)]
                         = Value_Bool(Operand(0).b = Operand(1).b)))]_vars

\* C10: OP_NOT replaces the top v of the stack by Bool(true) exactly when v
\* is Nil or Bool(false) and by Bool(false) for every other value, the
\* number 0 and the empty string included; so print ! ! nil ; prints false.
C10_Not ==
    /\ [][(Executes("Not") /\ Len(env.stack) >= 1)
          => (/\ pc' = "run"
              /\ ip' = ip + 1
              /\ env'.stack =
                     Append(Below(1),
                            Value_Bool(\/ Operand(0).t = "Nil"
                                       \/ (Operand(0).t = "Bool" /\ ~Operand(0).b))))]_vars
    /\ []((source = Program(<< <<"!">>, <<"!">>, KwNil >>) /\ pc = "done")
            => (/\ result = "Ok"
                /\ Len(stdout) = 1
                /\ stdout[1].t = "Bool"
                /\ ~stdout[1].b))

\* print ! 0 ; has executed its OP_NOT on the number 0 and holds Bool(false).
C10_Witness ==
    /\ source = Program(<< <<"!">>, NumLex(0) >>)
    /\ pc = "run"
    /\ decode(chunk, ip) = "Print"
    /\ decode(chunk, ip - 1) = "Not"
    /\ env.stack = <<Value_Bool(FALSE)>>

\* The strings that interning has returned an id for.
Interned == {p[1] : p \in handed}

\* C11: after any sequence of add_or_retrieve_string_literal calls the literal
\* pool holds at most 255 entries and every id returned is < 255; the call
\* that would add a 256th distinct string returns an error and leaves the
\* pool (bytes, index, next id) unchanged.
C11_LiteralPoolLimit ==
    /\ [](/\ Len(chunk.string_literals.data) <= 255
          /\ \A p \in handed : p[2] < 255
          /\ (call.op = "add_or_retrieve_string_literal" /\ call.ok) => call.id < 255)
    /\ [][(/\ pc = "literals"
           /\ Len(chunk.string_literals.data) = 255
           /\ call'.str \notin Interned)
          => (/\ ~call'.ok
              /\ call'.msg = "Too many string literals"
              /\ handed' = handed
              /\ chunk'.string_literals = chunk.string_literals)]_vars

\* The caller has interned 255 distinct strings and the call with the 256th
\* has returned the error.
C11_Witness ==
    /\ call.op = "add_or_retrieve_string_literal"
    /\ ~call.ok
    /\ call.str \notin Interned
    /\ Cardinality(Interned) = 255
    /\ Len(chunk.string_literals.data) = 255

\* C12: interning the same string twice in a chunk's literal pool, with any
\* other interning calls in between, returns the same id both times, and the
\* second call changes neither the number of pool entries nor the byte buffer.
C12_InternTwice ==
    /\ [](\A p \in handed : \A q \in handed : p[1] = q[1] => p[2] = q[2])
    /\ [][(pc = "literals" /\ call'.str \in Interned)
          => (/\ call'.ok
              /\ <<call'.str, call'.id>> \in handed
              /\ Len(chunk'.string_literals.data) = Len(chunk.string_literals.data)
              /\ chunk'.string_literals.string = chunk.string_literals.string)]_vars

\* The first string interned has been interned again after two others and
\* has come back with its id 0.
C12_Witness ==
    /\ call.op = "add_or_retrieve_string_literal"
    /\ call.ok
    /\ call.str = Name(0)
    /\ call.id = 0
    /\ Len(chunk.string_literals.data) = 3
    /\ {Name(0), Name(1), Name(2)} \subseteq Interned

\* The messages of the diagnostics printed so far.
Messages == {stderr[i].message : i \in 1..Len(stderr)}

\* C13: add_constant returns the index of the appended value (the previous
\* pool length) while the constant pool has fewer than 255 entries, and
\* returns the error "Too many constants in one chunk", leaving the pool
\* unchanged, once it has 255; so the pool never exceeds 255 entries and
\* compiling a program with 256 numeric literals records a compile error.
C13_ConstantPoolLimit ==
    /\ [](Len(chunk.constants) <= 255)
    /\ [][(pc = "constants" /\ call'.op = "add_constant")
          => IF Len(chunk.constants) < 255
             THEN /\ call'.ok
                  /\ call'.id = Len(chunk.constants)
                  /\ chunk'.constants = Append(chunk.constants, call'.value)
             ELSE /\ ~call'.ok
                  /\ call'.msg = "Too many constants in one chunk"
                  /\ chunk'.constants = chunk.constants]_vars
    /\ []((source = ManyNumbers /\ pc = "run")
            => (/\ ctx.ps.had_error
                /\ "Too many constants in one chunk" \in Messages))

\* compile has ended on the program of 256 numeric literals: the pool holds
\* 255 constants and the error is recorded.
C13_Witness ==
    /\ source = ManyNumbers
    /\ pc = "run"
    /\ Len(chunk.constants) = 255
    /\ ctx.ps.had_error
    /\ "Too many constants in one chunk" \in Messages

\* C14: in every reachable state of compilation, and in every chunk the
\* compiler produces, the code vector and the lines vector have the same
\* length: every byte appended comes with exactly one line entry, and
\* nothing is removed from either vector.
C14_CodeAndLines ==
    /\ [](Len(chunk.code) = Len(chunk.lines))
    /\ [][/\ Len(chunk'.code) >= Len(chunk.code)
          /\ SubSeq(chunk'.code, 1, Len(chunk.code)) = chunk.code
          /\ SubSeq(chunk'.lines, 1, Len(chunk.lines)) = chunk.lines]_vars

\* compile has produced a chunk of at least ten bytes, with opcodes, a
\* constant index and a string literal id among them.
C14_Witness ==
    /\ pc = "run"
    /\ Len(chunk.code) >= 10
    /\ Len(chunk.lines) = Len(chunk.code)
    /\ chunk.constants # <<>>
    /\ chunk.string_literals.data # <<>>

\* The opcodes that the VM reads one operand byte after.
WithOperand == {"Constant", "StringLiteral", "GetGlobal", "DefineGlobal", "SetGlobal"}

\* The byte at offset o of the chunk was written as an opcode, is an opcode,
\* and has the operand it needs: the next byte, written as an operand and
\* below the length of the pool it indexes.
OpcodeWellFormed(o) ==
    /\ from_u8(chunk.code[o + 1]) # "Invalid"
    /\ from_u8(chunk.code[o + 1]) \in WithOperand
          => (/\ o + 1 < Len(chunk.code)
              /\ o + 1 \in chunk.operands
              /\ IF from_u8(chunk.code[o + 1]) = "Constant"
                 THEN chunk.code[o + 2] < Len(chunk.constants)
                 ELSE /\ chunk.code[o + 2] < Len(chunk.string_literals.data)
                      /\ chunk.code[o + 2] < 255)

\* The byte at offset o was written as an operand and follows an opcode that
\* takes one.
OperandWellFormed(o) ==
    /\ o > 0
    /\ o - 1 \notin chunk.operands
    /\ from_u8(chunk.code[o]) \in WithOperand

\* C15: in every chunk the compiler produces, decoding from offset 0 yields a
\* well-formed instruction stream: each OP_CONSTANT is followed by one operand
\* byte idx < constants.len(), each OP_STRING_LITERAL and OP_*_GLOBAL by one
\* operand byte id < literals.len() and < 255; an opcode is never written
\* without its operand, also when adding to a full pool fails.
C15_WellFormedStream ==
    pc = "run" =>
        \A o \in 0..(Len(chunk.code) - 1) :
            IF o \in chunk.operands THEN OperandWellFormed(o) ELSE OpcodeWellFormed(o)

\* Expression statements with an = after a left-hand side that is not a plain
\* identifier: a + b = c;  -a = 1;  1 = 2;
BadTargets ==
    {<<"a", " ", "+", " ", "b", " ", "=", " ", "c", ";">>,
     <<"-", "a", " ", "=", " ", "1", ";">>,
     <<"1", " ", "=", " ", "2", ";">>}

\* C16: when an expression parsed at Assignment precedence has an = after a
\* left-hand side that is not a plain identifier (a + b = c; or -a = 1;), the
\* compiler records the diagnostic "Invalid assignment target." for it.
C16_InvalidAssignmentTarget ==
    (source \in BadTargets /\ pc \in {"run", "done"})
        => "Invalid assignment target." \in Messages

\* C17: executing OP_GET_GLOBAL for a name that no OP_DEFINE_GLOBAL has bound
\* makes run return RuntimeError, so print a; with no var a ends in
\* RuntimeError; for a bound name it pushes the value bound to it.
C17_GetGlobal ==
    /\ [][Executes("GetGlobal")
          => \/ (pc' = "done" /\ result' = "RuntimeError" /\ panic' = "")
             \/ (/\ pc' = "run"
                 /\ ip' = ip + 2
                 /\ Len(env'.stack) = Len(env.stack) + 1
                 /\ SubSeq(env'.stack, 1, Len(env.stack)) = env.stack)]_vars
    /\ []((source = KwPrint \o <<" ", "a", ";">> /\ pc = "done")
            => result = "RuntimeError")

\* C18: executing OP_DEFINE_GLOBAL binds the name to the value on top of the
\* stack and then pops it, whether or not the name was bound; after several
\* definitions of the same name the global holds the value of the last one,
\* so var a = 1; var a = 2; print a; prints 2.
C18_DefineGlobal ==
    /\ [][(Executes("DefineGlobal") /\ Len(env.stack) >= 1)
          => (/\ pc' = "run"
              /\ ip' = ip + 2
              /\ panic' = ""
              /\ env'.stack = Below(1))]_vars
    /\ []((/\ source = KwVar \o <<" ", "a", " ", "=", " ", "1", ";", " ">> \o KwVar
                         \o <<" ", "a", " ", "=", " ", "2", ";", " ">> \o KwPrint
                         \o <<" ", "a", ";">>
           /\ pc = "done")
            => (/\ result = "Ok"
                /\ Len(stdout) = 1
                /\ stdout[1].t = "Number"
                /\ stdout[1].n = Fin(2, 1)))

\* C19: executing OP_SET_GLOBAL for an unbound name makes run return
\* RuntimeError; for a bound name it overwrites the binding with the value on
\* top of the stack and leaves that value on the stack, so
\* var x = 3; x = x + 4; print x; prints 7 and x = 1; ends in RuntimeError.
C19_SetGlobal ==
    /\ [][(Executes("SetGlobal") /\ Len(env.stack) >= 1)
          => \/ (pc' = "done" /\ result' = "RuntimeError" /\ panic' = "")
             \/ (/\ pc' = "run"
                 /\ ip' = ip + 2
                 /\ env'.stack[Len(env'.stack)] = Operand(0))]_vars
    /\ []((/\ source = KwVar \o <<" ", "x", " ", "=", " ", "3", ";", " ", "x", " ", "=",
                                  " ", "x", " ", "+", " ", "4", ";", " ">>
                         \o KwPrint \o <<" ", "x", ";">>
           /\ pc = "done")
            => (/\ result = "Ok"
                /\ Len(stdout) = 1
                /\ stdout[1].t = "Number"
                /\ stdout[1].n = Fin(7, 1)))
    /\ []((source = <<"x", " ", "=", " ", "1", ";">> /\ pc = "done")
            => result = "RuntimeError")

\* The number of stack values an opcode pops or peeks.
Consumes(opcode) ==
    IF opcode \in {"Pop", "Not", "Negate", "Print", "DefineGlobal"} THEN 1
    ELSE IF opcode \in {"Equal", "Greater", "Less", "Add", "Subtract",
                        "Multiply", "Divide"} THEN 2
    ELSE 0

\* C20: for every chunk that compile hands to the VM, no executed opcode pops
\* or peeks a stack that holds fewer values than the opcode consumes.
C20_NoUnderflow ==
    pc = "run" => Len(env.stack) >= Consumes(decode(chunk, ip))

\* The same for the chunks of sources that compiled without a diagnostic.
C20_NoUnderflowCleanCompile ==
    (pc = "run" /\ ~ctx.ps.had_error)
        => Len(env.stack) >= Consumes(decode(chunk, ip))

\* C21: for an identifier used as an expression the compiler emits exactly
\* OP_GET_GLOBAL <id> when it is not an assignment target, and exactly the
\* code of the right-hand side followed by OP_SET_GLOBAL <id> when it is, and
\* no other instruction for the identifier itself: print a; compiles to
\* GET_GLOBAL 0, PRINT, RETURN and x = 1; to CONSTANT 0, SET_GLOBAL 0, POP,
\* RETURN.
C21_IdentifierCode ==
    /\ (source = KwPrint \o <<" ", "a", ";">> /\ pc \in {"run", "done"})
           => chunk.code = <<OpByte("GetGlobal"), 0, OpByte("Print"), OpByte("Return")>>
    /\ (source = <<"x", " ", "=", " ", "1", ";">> /\ pc \in {"run", "done"})
           => chunk.code = <<OpByte("Constant"), 0, OpByte("SetGlobal"), 0,
                          OpByte("Pop"), OpByte("Return")>>

\* The token type of a binary operator's lexeme.
LexToken(op) ==
    CASE op = <<"+">> -> "Plus"
      [] op = <<"-">> -> "Minus"
      [] op = <<"*">> -> "Star"
      [] op = <<"/">> -> "Slash"
      [] op = <<"<">> -> "Less"
      [] op = <<">">> -> "Greater"
      [] op = <<"<", "=">> -> "LessEqual"
      [] op = <<">", "=">> -> "GreaterEqual"
      [] op = <<"=", "=">> -> "EqualEqual"
      [] op = <<"!", "=">> -> "BangEqual"

\* The bytes that stand for a binary operator in the code.
LexCode(op) ==
    CASE op = <<"+">> -> <<OpByte("Add")>>
      [] op = <<"-">> -> <<OpByte("Subtract")>>
      [] op = <<"*">> -> <<OpByte("Multiply")>>
      [] op = <<"/">> -> <<OpByte("Divide")>>
      [] op = <<"<">> -> <<OpByte("Less")>>
      [] op = <<">">> -> <<OpByte("Greater")>>
      [] op = <<"<", "=">> -> <<OpByte("Greater"), OpByte("Not")>>
      [] op = <<">", "=">> -> <<OpByte("Less"), OpByte("Not")>>
      [] op = <<"=", "=">> -> <<OpByte("Equal")>>
      [] op = <<"!", "=">> -> <<OpByte("Equal"), OpByte("Not")>>

\* OP_CONSTANT with the index of the k-th number of the source.
Const(k) == <<OpByte("Constant"), k>>

\* The code of a op1 b op2 c for the first three constants a, b, c.
Grouped(op1, op2) ==
    IF query(LexToken(op2)).precedence <= query(LexToken(op1)).precedence
    THEN Const(0) \o Const(1) \o LexCode(op1) \o Const(2) \o LexCode(op2)
    ELSE Const(0) \o Const(1) \o Const(2) \o LexCode(op2) \o LexCode(op1)

\* C22: binary operators are compiled left-associatively and by precedence:
\* a op1 b op2 c is emitted as a, b, op1, c, op2 when op2's precedence is at
\* most op1's and as a, b, c, op2, op1 when it is higher, and a parenthesised
\* operand is emitted as a unit: (1 + 2) * 3 gives 1, 2, ADD, 3, MULTIPLY.
C22_PrecedenceAndAssociativity ==
    /\ \A op1 \in BinaryLex, op2 \in BinaryLex :
           (/\ source = Join(<<KwPrint, NumLex(0), op1, NumLex(1), op2, NumLex(2),
                               <<";">> >>)
            /\ pc \in {"run", "done"})
               => chunk.code = Grouped(op1, op2) \o <<OpByte("Print"), OpByte("Return")>>
    /\ (/\ source = KwPrint \o <<" ", "(", "1", " ", "+", " ", "2", ")", " ", "*", " ", "3", ";">>
        /\ pc \in {"run", "done"})
           => chunk.code = Const(0) \o Const(1) \o LexCode(<<"+">>) \o Const(2)
                               \o LexCode(<<"*">>) \o <<OpByte("Print"), OpByte("Return")>>

\* 0 - 1 - 2 has been compiled, and so has 0 + 1 * 2 down to its last byte.
C22_Witness ==
    \/ (/\ source = Join(<<KwPrint, NumLex(0), <<"-">>, NumLex(1), <<"-">>, NumLex(2),
                           <<";">> >>)
        /\ pc = "run"
        /\ decode(chunk, 4) = "Subtract"
        /\ ip = 9)
    \/ (/\ source = Join(<<KwPrint, NumLex(0), <<"+">>, NumLex(1), <<"*">>, NumLex(2),
                           <<";">> >>)
        /\ pc = "run"
        /\ decode(chunk, 6) = "Multiply"
        /\ ip = 9)

\* The compiler after the var_declaration or statement of the next turn of
\* the loop of compile, before declaration tests panic_mode.
Parsed ==
    IF ctx.pp.current.token_type = "Var" THEN var_declaration(Compiler)
    ELSE statement(Compiler)

\* C23: during compilation had_error never goes from true back to false,
\* panic_mode implies had_error, and error_at while panic_mode is true emits
\* no diagnostic and changes neither flag; so at most one diagnostic is
\* emitted between two moments at which panic_mode is cleared: none in a
\* declaration entered in panic mode and at most one otherwise, up to the
\* synchronize that clears the flag, and at most one in synchronize.
C23_ErrorFlags ==
    /\ [][ctx.ps.had_error => ctx'.ps.had_error]_vars
    /\ [](ctx.ps.panic_mode => ctx.ps.had_error)
    /\ []((pc = "compile" /\ ctx.ps.panic_mode)
            => error_at(ctx.line, "Expect expression.", Compiler) = Compiler)
    /\ []((pc = "compile" /\ ~check("EOF", ctx.pp))
            => (/\ ctx.ps.had_error => Parsed.ctx.ps.had_error
                /\ Parsed.ctx.ps.panic_mode => Parsed.ctx.ps.had_error
                /\ Len(Parsed.stderr) <= Len(stderr) + (IF ctx.ps.panic_mode THEN 0 ELSE 1)
                /\ Len(synchronize(Parsed).stderr) <= Len(Parsed.stderr) + 1))

\* print ; was compiled in panic mode after the scan error of @: none of its
\* two syntax errors was reported.
C23_Witness ==
    /\ source = <<"@", " ">> \o KwPrint \o <<" ", ";">>
    /\ pc = "compile"
    /\ check("EOF", ctx.pp)
    /\ Len(stderr) = 1
    /\ ctx.ps.had_error
    /\ ~ctx.ps.panic_mode

\* The parser stands at a point where synchronize stops.
Synced(m) ==
    \/ m.ctx.pp.current.token_type = "EOF"
    \/ m.ctx.pp.previous.token_type = "Semicolon"
    \/ m.ctx.pp.current.token_type \in
           {"Class", "Fun", "Var", "For", "If", "While", "Print", "Return"}

\* The compiler k calls of advance after m.
RECURSIVE Advanced(_, _)
Advanced(k, m) == IF k = 0 THEN m ELSE advance(Advanced(k - 1, m))

\* Panic mode cleared, as synchronize does first.
Cleared(m) == [m EXCEPT !.ctx.ps.panic_mode = FALSE]

\* C24: when synchronize returns, the current token is EOF, or the previous
\* token is ';', or the current token is one of class, fun, var, for, if,
\* while, print, return; and synchronize advances past no token once one of
\* these holds: its result is the first of the states reached by repeated
\* advance at which one holds.
C24_Synchronize ==
    (/\ pc = "compile"
     /\ ~check("EOF", ctx.pp)
     /\ Parsed.ctx.ps.panic_mode
     /\ synchronize(Parsed).abort = "")
        => /\ Synced(synchronize(Parsed))
           /\ \E k \in 0..Len(source) :
                  /\ synchronize(Parsed) = Advanced(k, Cleared(Parsed))
                  /\ \A j \in 0..(k - 1) : ~Synced(Advanced(j, Cleared(Parsed)))

\* synchronize has skipped the second + of + + var x; and stopped at var;
\* it has stopped after the ; of print ; 1; without a step.
C24_Witness ==
    \/ (/\ source = <<"+", " ", "+", " ">> \o KwVar \o <<" ", "x", ";">>
        /\ pc = "compile"
        /\ ctx.pp.previous.token_type = "Plus"
        /\ ctx.pp.current.token_type = "Var"
        /\ Len(stderr) = 1)
    \/ (/\ source = KwPrint \o <<" ", ";", " ", "1", ";">>
        /\ pc = "compile"
        /\ ctx.pp.previous.token_type = "Semicolon"
        /\ ctx.pp.current.token_type = "Number"
        /\ Len(stderr) = 1)

\* scan_token called with the read cursor at byte offset p.
ScanAt(p) == scan_token([sp |-> [start |-> p, current |-> p], line |-> 1, abort |-> ""])

\* C25: compile terminates on every finite source, also with scan and syntax
\* errors: each turn of the top-level declaration loop consumes at least one
\* token (the current token moves on in the source or becomes EOF), each
\* failing scan_token call consumes at least one source character, and the
\* loop is left when the current token is EOF.
C25_CompileTerminates ==
    /\ <>(pc \notin {"interpret", "compile"})
    /\ [][(pc = "compile" /\ pc' = "compile")
            => (/\ ~check("EOF", ctx.pp)
                /\ \/ check("EOF", ctx'.pp)
                   \/ ctx'.pp.current.start > ctx.pp.current.start)]_vars
    /\ [][(pc = "compile" /\ check("EOF", ctx.pp)) => pc' # "compile"]_vars
    /\ [](pc = "interpret"
            => \A p \in 0..ByteLen(source) :
                   (~ScanAt(p).ok /\ ScanAt(p).s.abort = "")
                       => ScanAt(p).s.sp.current > p)

\* compile has returned for a source with a scan error and two syntax errors,
\* after three turns of its loop.
C25_Witness ==
    /\ source = <<"+", " ", "+", " ">> \o KwVar \o <<" ", "x", ";">>
    /\ pc = "run"
    /\ ctx.ps.had_error
    /\ check("EOF", ctx.pp)

\* The length of an instruction: the opcode and its operand.
Size(opcode) ==
    IF opcode \in {"Constant", "StringLiteral", "GetGlobal", "DefineGlobal", "SetGlobal"}
    THEN 2
    ELSE 1

\* C26: for every chunk that compile hands to the VM, run eventually returns:
\* ip starts at 0, every executed opcode increases ip by 1 plus its operand
\* length, ip always points at an opcode byte inside the code vector, and
\* execution reaches the final OP_RETURN or a runtime error.
C26_RunReturns ==
    /\ (pc = "run") ~> (pc = "done" /\ panic = "" /\ result \in {"Ok", "RuntimeError"})
    /\ [][(pc # "run" /\ pc' = "run") => ip' = 0]_vars
    /\ [][(pc = "run" /\ pc' = "run") => ip' = ip + Size(decode(chunk, ip))]_vars
    /\ [](pc = "run" => (ip \in 0..(Len(chunk.code) - 1) /\ ip \notin chunk.operands))

\* run does return Ok for print 1 + 2 * 3;, whose chunk has no OP_POP and no
\* global opcode.
C26_RunReturnsPrintNumbers ==
    (pc = "run" /\ source = KwPrint \o <<" ", "1", " ", "+", " ", "2", " ", "*", " ", "3", ";">>)
           ~> (pc = "done" /\ panic = "" /\ result = "Ok")

\* The source has a character of more than one byte.
HasNonAscii == \E i \in 1..Len(source) : Width(source[i]) > 1

\* C27: scanning a source with a non-ASCII character yields the scan error
\* 'Unexpected character.' for it, the scanner then goes on to the later
\* tokens and reaches EOF, and the cursor, compared against the byte length
\* of the source, never fetches a character position that does not exist.
C27_NonAsciiScanError ==
    /\ HasNonAscii => panic # UnwrapNone
    /\ (source \in {<<NON_ASCII>>, KwPrint \o <<" ", "1", ";", " ", NON_ASCII>>}
            /\ pc \in {"run", "done"})
           => (/\ "Unexpected character." \in Messages
               /\ check("EOF", ctx.pp)
               /\ panic = "")

\* The number of newline characters among the first n characters of the source.
Newlines(n) == Cardinality({i \in 1..n : i <= Len(source) /\ source[i] = "\n"})

\* scan_token called with the read cursor at p and the line counter of p.
ScanFrom(p) ==
    scan_token([sp |-> [start |-> p, current |-> p], line |-> 1 + Newlines(p),
                abort |-> ""])

\* C28: after every scan_token call the line counter is 1 plus the number of
\* newline characters of the source before the read cursor, newlines in
\* whitespace, at the end of line comments and inside string literals counted
\* once each; so the counter never decreases, and a token's line is the line
\* of its last character.
C28_LineCounter ==
    /\ []((pc \in {"compile", "run", "done"})
            => ctx.line = 1 + Newlines(ctx.sp.current))
    /\ [][ctx'.line >= ctx.line]_vars
    /\ [](pc = "interpret"
            => \A p \in 0..Len(source) :
                   ScanFrom(p).s.abort = ""
                       => (/\ ScanFrom(p).s.line = 1 + Newlines(ScanFrom(p).s.sp.current)
                           /\ (ScanFrom(p).ok /\ ScanFrom(p).token.length > 0)
                                  => ScanFrom(p).token.line =
                                         1 + Newlines(ScanFrom(p).token.start
                                                      + ScanFrom(p).token.length - 1)))

\* The source with a newline after print, one inside a string literal and one
\* after + has been compiled, and the counter stands at 4.
C28_Witness ==
    /\ source = KwPrint \o <<"\n", "\t">> \o StrLex(<<"a", "\n", "b">>)
                    \o <<" ", "+", "\r", "\n", "1", ";">>
    /\ pc = "run"
    /\ ctx.line = 4

\* C29: the k-th call (k = 0, 1, 2, ...) of add_string on a VM's dynamic pool
\* returns id 255 + k: the ids are strictly increasing, none is a literal id,
\* equal content added twice gets two different ids, and get_string of any
\* returned id yields the content added under it, also after later additions.
C29_DynamicIds ==
    /\ [][call'.op = "add_string"
            => (/\ call'.ok
                /\ call'.id = 255 + Cardinality(handed)
                /\ ~StringId_is_literal(call'.id)
                /\ \A p \in handed : p[2] < call'.id)]_vars
    /\ [](pc = "strings"
            => \A p \in handed :
                   DynamicStringStorage_get_string(env.dynamic_strings, p[2])
                       = [ok |-> TRUE, str |-> p[1]])

\* "a" has been added, then "b", then "a" again, under the ids 255, 256, 257.
C29_Witness ==
    /\ pc = "strings"
    /\ handed = {<< <<"a">>, 255>>, << <<"b">>, 256>>, << <<"a">>, 257>>}
    /\ call.op = "add_string"
    /\ call.id = 257

\* C30: at the start of every top-level declaration, that is of every turn of
\* the loop of compile, panic_mode is false, so that the first error of each
\* declaration is reported; a scan error met during the priming advance or
\* while synchronize is advancing does not leave panic_mode set for the next
\* declaration.
C30_NoPanicAtDeclaration ==
    /\ (pc = "compile" /\ ~check("EOF", ctx.pp)) => ~ctx.ps.panic_mode
    /\ (source = <<"@", " ">> \o KwPrint \o <<" ", ";">> /\ pc \in {"run", "done"})
           => "Expect expression." \in Messages

\* What an opcode adds to the stack depth: for the opcodes with an arm in run
\* what the arm does, for OP_POP and the global opcodes what their names and
\* the compiler's use of them say (OP_GET_GLOBAL pushes the global's value,
\* OP_SET_GLOBAL leaves the assigned value, OP_DEFINE_GLOBAL and OP_POP pop).
Effect(opcode) ==
    IF opcode \in {"Constant", "StringLiteral", "Nil", "True", "False", "GetGlobal"} THEN 1
    ELSE IF opcode \in {"Pop", "DefineGlobal", "Print", "Equal", "Greater", "Less",
                        "Add", "Subtract", "Multiply", "Divide"} THEN -1
    ELSE 0

\* The offsets of the opcodes of the chunk.
OpcodeOffsets == {o \in 0..(Len(chunk.code) - 1) : o \notin chunk.operands}

\* The offsets of the opcodes that end a statement or a declaration.
Enders == {o \in OpcodeOffsets : decode(chunk, o) \in {"Print", "Pop", "DefineGlobal"}}

\* The offset of the first opcode of the statement that ends at offset o.
StatementStart(o) ==
    IF \E t \in Enders : t < o
    THEN (CHOOSE t \in Enders : t < o /\ \A u \in Enders : u < o => u <= t)
             + Size(decode(chunk, CHOOSE t \in Enders : t < o /\ \A u \in Enders : u < o => u <= t))
    ELSE 0

\* What the statement that ends at offset o adds to the stack depth.
NetEffect(o) ==
    Cardinality({i \in OpcodeOffsets :
                    StatementStart(o) <= i /\ i <= o /\ Effect(decode(chunk, i)) = 1})
    - Cardinality({i \in OpcodeOffsets :
                    StatementStart(o) <= i /\ i <= o /\ Effect(decode(chunk, i)) = -1})

\* C31: for a program compiled without error the code of each print
\* statement and each expression statement is stack-neutral: after its last
\* opcode (OP_PRINT or OP_POP) the stack is as deep as before its first
\* opcode, also when the expression reads or assigns identifiers.
C31_StackNeutralStatements ==
    (pc = "run" /\ ~ctx.ps.had_error)
        => /\ \A o \in Enders :
                  decode(chunk, o) \in {"Print", "Pop"} => NetEffect(o) = 0
           /\ (ip \in Enders /\ decode(chunk, ip) \in {"Print", "Pop"})
                  => Len(env.stack) = 1

\* The same for the programs whose chunk has no global opcode.
C31_StackNeutralWithoutIdentifiers ==
    (/\ pc = "run"
     /\ ~ctx.ps.had_error
     /\ \A o \in OpcodeOffsets :
            decode(chunk, o) \notin {"GetGlobal", "SetGlobal", "DefineGlobal"})
        => /\ \A o \in Enders :
                  decode(chunk, o) \in {"Print", "Pop"} => NetEffect(o) = 0
           /\ (ip \in Enders /\ decode(chunk, ip) \in {"Print", "Pop"})
                  => Len(env.stack) = 1

\* C32: read_string_literal(id) returns exactly the content s for the id that
\* add_or_retrieve_string_literal(s) returned, and keeps returning it after
\* any later interning calls: ids are given out as 0, 1, 2, ... in the order
\* of first occurrence and never given to another string; interning a string
\* that is already present still succeeds when the pool is full at 255
\* entries.
C32_LiteralRoundTrip ==
    /\ [](pc = "literals"
            => (/\ \A p \in handed :
                       read_string_literal(chunk, p[2]) = [ok |-> TRUE, str |-> p[1]]
                /\ \A p \in handed : \A q \in handed : p[2] = q[2] => p[1] = q[1]))
    /\ [][(pc = "literals" /\ call'.str \notin Interned /\ call'.ok)
            => call'.id = Cardinality(Interned)]_vars
    /\ [][(/\ pc = "literals"
           /\ Len(chunk.string_literals.data) = 255
           /\ call'.str \in Interned)
            => (/\ call'.ok
                /\ read_string_literal(chunk', call'.id) = [ok |-> TRUE, str |-> call'.str])]_vars

\* With 255 strings in the pool the first of them has been interned again
\* and has come back with id 0.
C32_Witness ==
    /\ pc = "literals"
    /\ Len(chunk.string_literals.data) = 255
    /\ Cardinality(Interned) = 255
    /\ call.op = "add_or_retrieve_string_literal"
    /\ call.ok
    /\ call.str = Name(0)
    /\ call.id = 0

\* One character of the source at byte offset b, as the compiler's slices
\* read it.
ByteAt(b) == Slice(source, b, b + 1)

\* What C33 says of the token that scan_token returns from the cursor p.
TokenInSource(p) ==
    LET token == ScanFrom(p).token
    IN  /\ token.start + token.length <= ByteLen(source)
        /\ p <= token.start
        /\ ScanFrom(p).s.sp.current = token.start + token.length
        /\ token.token_type = "String"
               => (/\ token.length >= 2
                   /\ ByteAt(token.start) = [ok |-> TRUE, str |-> <<"\"">>]
                   /\ ByteAt(token.start + token.length - 1) = [ok |-> TRUE, str |-> <<"\"">>]
                   /\ Slice(source, token.start + 1, token.start + token.length - 1).ok)
        /\ token.token_type \in {"Identifier", "Number"}
               => Slice(source, token.start, token.start + token.length).ok

\* C33: every token returned by scan_token has start + length <= source
\* length, successive tokens do not overlap, and every String token has
\* length >= 2 with a double quote as its first and last character, so that
\* the compiler's slices [start+1, start+length-1) of a string literal and
\* [start, start+length) of an identifier or number are always valid ranges.
C33_TokensInSource ==
    /\ pc = "interpret"
           => \A p \in 0..Len(source) :
                  (ScanFrom(p).ok /\ ScanFrom(p).s.abort = "") => TokenInSource(p)
    /\ pc \in {"compile", "run", "done"}
           => ctx.pp.previous.start + ctx.pp.previous.length <= ctx.pp.current.start
    /\ panic # SliceIndex

\* The same for the sources of ASCII characters only.
C33_TokensInAsciiSource ==
    ~HasNonAscii => C33_TokensInSource

====
